---- MODULE Spec2Model ----
(***************************************************************************)
(* A model of the ComfyWorkflow class (src/ComfyWorkflow.ts) and of its    *)
(* structural-equivalence engine.                                          *)
(*                                                                         *)
(* A JavaScript object is modelled as the sequence of its entries in       *)
(* Object.entries order: integer-like keys first in ascending order, then  *)
(* the other keys in insertion order.  `this.nodes` is a sequence of       *)
(* [id, class_type, inputs] entries and `node.inputs` a sequence of        *)
(* [name, value] entries.  Input values are JSON scalars or connections    *)
(* (the InputValue type), tagged by kind.  Node ids, class types and input  *)
(* names are ordinary identifiers: none contains ':' or '|', the           *)
(* separators of hashNodeInputs, except for the one input name "a:1|b" of  *)
(* SpecHash.  The ids and class types of stored nodes do not name a member *)
(* of Object.prototype; the single calls of SpecOps also take the id       *)
(* "toString", which does, and the workflows of SpecClass also have the    *)
(* class type "toString".  Literals are JSON scalars.                      *)
(***************************************************************************)
EXTENDS Integers, Sequences, FiniteSets, TLC

VARIABLES
    wf,      \* this.nodes of the workflow under test
    other,   \* this.nodes of a second workflow, the argument of comparisons
    diffs,   \* the StructuralDiff[] returned by the last getStructuralDiff call
    last     \* the last public call: its name, arguments and outcome

vars == <<wf, other, diffs, last>>

----------------------------------------------------------------------------
(* Bounds of the model *)

MaxNodes == 2      \* nodes per workflow
MaxInputs == 2     \* inputs per workflow, over all its nodes
MaxPort == 1       \* source ports are 0..MaxPort
MaxNum == 1        \* literals are the numbers 1..MaxNum and their numerals as strings
MaxMatchNodes == 3 \* nodes per workflow where all nodes have one class type
MaxKeyNodes == 3   \* nodes per workflow where ids are generated
MaxJsonNodes == 2  \* nodes per workflow that is exported and imported

Ids == {"1", "2", "x"}
ClassTypes == {"K", "L"}
\* the input names, listed in the order Array.prototype.sort gives them
InputNames == <<"a", "b">>
Names == {InputNames[i] : i \in DOMAIN InputNames}
\* the input names and a name that holds the separators of hashNodeInputs, in
\* the order Array.prototype.sort gives them (by UTF-16 code units)
SortedNames == <<"a", "a:1|b", "b">>
Ports == 0..MaxPort

----------------------------------------------------------------------------
(* Values: the InputValue type, plus undefined for an absent property *)

Num(n) == [kind |-> "num", s |-> "", n |-> n]
Str(s) == [kind |-> "str", s |-> s, n |-> 0]
Conn(s, p) == [kind |-> "conn", s |-> s, n |-> p]
UNDEFINED == [kind |-> "undefined", s |-> "", n |-> 0]

Literals == {Num(n) : n \in 1..MaxNum} \cup {Str(ToString(n)) : n \in 1..MaxNum}
Conns == {Conn(s, p) : s \in Ids, p \in Ports}
Values == Literals \cup Conns
\* the values the store operations are driven with: connections on port 0
StoreValues == Literals \cup {Conn(s, 0) : s \in Ids}

isNodeConnection(value) == value.kind = "conn"

\* JSON.stringify of a literal
JsonStringify(value) ==
    CASE value.kind = "num" -> ToString(value.n)
      [] value.kind = "str" -> "\"" \o value.s \o "\""
      [] OTHER -> "null"

----------------------------------------------------------------------------
(* Objects as entry sequences *)

Min(S) == CHOOSE m \in S : \A k \in S : m <= k
Max(S) == CHOOSE m \in S : \A k \in S : m >= k

\* a key that is a decimal numeral is an integer-like key, ordered by its value
IsNumeral(id) == \E n \in 0..9 : ToString(n) = id
ParseInt(id) == CHOOSE n \in 0..9 : ToString(n) = id

\* parseInt(id) reads the digits a key starts with: the keys of the model are
\* a digit, a digit followed by "x", or "x"; isNaN(parseInt(id)) for the last
Suffixes == {"", "x"}
isNaN(id) == ~\E n \in 0..9, t \in Suffixes : id = ToString(n) \o t
parseInt(id) == CHOOSE n \in 0..9 : \E t \in Suffixes : id = ToString(n) \o t

NodeIds(nodes) == {nodes[i].id : i \in DOMAIN nodes}
HasNode(nodes, id) == id \in NodeIds(nodes)
NodeOf(nodes, id) == nodes[CHOOSE i \in DOMAIN nodes : nodes[i].id = id]

\* this.nodes is a plain object: for a key that names a member of
\* Object.prototype, this.nodes[id] is that member when no node has the id
PrototypeKeys == {"toString"}
\* this.nodes[id] is truthy
Found(nodes, id) == HasNode(nodes, id) \/ id \in PrototypeKeys
\* this.nodes[id] is a function of Object.prototype, whose inputs are undefined
Inherited(nodes, id) == ~HasNode(nodes, id) /\ id \in PrototypeKeys
\* the ids that single calls are made with
CallIds == Ids \cup PrototypeKeys

InputNamesOf(inputs) == {inputs[i].name : i \in DOMAIN inputs}
\* node.inputs[name]
InputOf(inputs, name) ==
    IF name \in InputNamesOf(inputs)
    THEN inputs[CHOOSE i \in DOMAIN inputs : inputs[i].name = name].value
    ELSE UNDEFINED

\* obj[id] = node for a new key: an integer-like key takes its numeric place
\* among the integer-like keys, another key goes last
InsertNode(nodes, node) ==
    IF IsNumeral(node.id)
    THEN LET before == {i \in DOMAIN nodes :
                           IsNumeral(nodes[i].id)
                           /\ ParseInt(nodes[i].id) < ParseInt(node.id)}
             k == Cardinality(before)
         IN  SubSeq(nodes, 1, k) \o <<node>> \o SubSeq(nodes, k + 1, Len(nodes))
    ELSE Append(nodes, node)

\* inputs[name] = value: an existing key keeps its place, a new one goes last
AssignInput(inputs, name, value) ==
    IF name \in InputNamesOf(inputs)
    THEN [i \in DOMAIN inputs |->
             IF inputs[i].name = name THEN [name |-> name, value |-> value]
             ELSE inputs[i]]
    ELSE Append(inputs, [name |-> name, value |-> value])

\* delete inputs[name]
DeleteInput(inputs, name) == SelectSeq(inputs, LAMBDA e : e.name # name)

\* nodes[id].inputs replaced
WithInputs(nodes, id, inputs) ==
    [i \in DOMAIN nodes |->
        IF nodes[i].id = id THEN [nodes[i] EXCEPT !.inputs = inputs]
        ELSE nodes[i]]

RECURSIVE Flatten(_)
Flatten(seqs) == IF seqs = <<>> THEN <<>> ELSE Head(seqs) \o Flatten(Tail(seqs))

RECURSIVE SumLen(_)
SumLen(nodes) ==
    IF nodes = <<>> THEN 0
    ELSE Len(Head(nodes).inputs) + SumLen(Tail(nodes))

----------------------------------------------------------------------------
(* Node and edge operations *)

\* generateNodeId that counts the nodes
generateNodeIdCounting(nodes) == ToString(Len(nodes) + 1)

generateNodeId(nodes) ==
    LET ids == {parseInt(id) : id \in {k \in NodeIds(nodes) : ~isNaN(k)}}
        maxId == IF ids # {} THEN Max(ids) ELSE 0
    IN  ToString(maxId + 1)

\* the node map after addNode(classType, inputs, {id}), which does not throw
addNode(nodes, classType, inputs, nodeId) ==
    InsertNode(nodes, [id |-> nodeId, class_type |-> classType, inputs |-> inputs])

\* removeNode without the loop that deletes the edges leaving the node
removeNodeKeepingEdges(nodes, nodeId) ==
    IF ~HasNode(nodes, nodeId) THEN nodes
    ELSE SelectSeq(nodes, LAMBDA n : n.id # nodeId)

\* the node map after removeNode(nodeId)
removeNode(nodes, nodeId) ==
    IF ~Found(nodes, nodeId) THEN nodes
    ELSE LET detached ==
                 [i \in DOMAIN nodes |->
                     [nodes[i] EXCEPT !.inputs =
                         SelectSeq(@, LAMBDA e :
                             ~(isNodeConnection(e.value) /\ e.value.s = nodeId))]]
         IN  SelectSeq(detached, LAMBDA n : n.id # nodeId)

\* addEdge that starts the inputs of the target afresh
addEdgeResetting(nodes, sourceNodeId, sourcePort, targetNodeId, targetInputName) ==
    WithInputs(nodes, targetNodeId,
               <<[name |-> targetInputName, value |-> Conn(sourceNodeId, sourcePort)]>>)

\* getNodeCount that counts the integer-like keys
getNodeCountNumeric(nodes) == Cardinality({i \in DOMAIN nodes : IsNumeral(nodes[i].id)})

\* Object.keys(this.nodes).length
getNodeCount(nodes) == Len([i \in DOMAIN nodes |-> nodes[i].id])

\* the node map after addEdge, which does not throw
addEdge(nodes, sourceNodeId, sourcePort, targetNodeId, targetInputName) ==
    WithInputs(nodes, targetNodeId,
               AssignInput(NodeOf(nodes, targetNodeId).inputs, targetInputName,
                           Conn(sourceNodeId, sourcePort)))

\* the node map after removeEdge, which does not throw
removeEdge(nodes, targetNodeId, inputName) ==
    IF ~Found(nodes, targetNodeId) THEN nodes
    ELSE IF isNodeConnection(InputOf(NodeOf(nodes, targetNodeId).inputs, inputName))
    THEN WithInputs(nodes, targetNodeId,
                    DeleteInput(NodeOf(nodes, targetNodeId).inputs, inputName))
    ELSE nodes

getEdges(nodes) ==
    Flatten([i \in DOMAIN nodes |->
        LET connections == SelectSeq(nodes[i].inputs, LAMBDA e : isNodeConnection(e.value))
        IN  [k \in DOMAIN connections |->
                [sourceNodeId |-> connections[k].value.s,
                 sourcePort |-> connections[k].value.n,
                 targetNodeId |-> nodes[i].id,
                 targetInputName |-> connections[k].name]]])

getEdgesFrom(nodes, sourceNodeId) ==
    SelectSeq(getEdges(nodes), LAMBDA edge : edge.sourceNodeId = sourceNodeId)

getEdgesTo(nodes, targetNodeId) ==
    SelectSeq(getEdges(nodes), LAMBDA edge : edge.targetNodeId = targetNodeId)

\* hasConnection that accepts an edge in either direction
hasConnectionEitherWay(nodes, sourceNodeId, targetNodeId) ==
    \E e \in DOMAIN getEdges(nodes) :
        \/ /\ getEdges(nodes)[e].sourceNodeId = sourceNodeId
           /\ getEdges(nodes)[e].targetNodeId = targetNodeId
        \/ /\ getEdges(nodes)[e].sourceNodeId = targetNodeId
           /\ getEdges(nodes)[e].targetNodeId = sourceNodeId

hasConnection(nodes, sourceNodeId, targetNodeId) ==
    \E e \in DOMAIN getEdges(nodes) :
        /\ getEdges(nodes)[e].sourceNodeId = sourceNodeId
        /\ getEdges(nodes)[e].targetNodeId = targetNodeId

\* a returned object, as the sequence of its entries
Obj(entries) == [kind |-> "object", entries |-> entries]

\* the value of getNode, which does not throw
getNode(nodes, nodeId) ==
    IF ~Found(nodes, nodeId) THEN UNDEFINED ELSE NodeOf(nodes, nodeId)

\* the value of getInput, which does not throw
getInput(nodes, nodeId, name) ==
    IF ~Found(nodes, nodeId) THEN UNDEFINED
    ELSE InputOf(NodeOf(nodes, nodeId).inputs, name)

\* { ...node.inputs }: the spread of undefined has no entries
getInputs(nodes, nodeId) ==
    IF ~Found(nodes, nodeId) THEN UNDEFINED
    ELSE IF Inherited(nodes, nodeId) THEN Obj(<<>>)
    ELSE Obj(NodeOf(nodes, nodeId).inputs)

\* the node map after setInput, which does not throw
setInput(nodes, nodeId, name, value) ==
    WithInputs(nodes, nodeId, AssignInput(NodeOf(nodes, nodeId).inputs, name, value))

\* the node map after clearInput, which does not throw
clearInput(nodes, nodeId, name) ==
    IF ~Found(nodes, nodeId) THEN nodes
    ELSE WithInputs(nodes, nodeId, DeleteInput(NodeOf(nodes, nodeId).inputs, name))

----------------------------------------------------------------------------
(* Structural equivalence *)

ABSENT == "(absent)"   \* an optional field of a StructuralDiff that is not set

RECURSIVE Join(_, _)
Join(strs, sep) ==
    IF strs = <<>> THEN ""
    ELSE IF Len(strs) = 1 THEN strs[1]
    ELSE strs[1] \o sep \o Join(Tail(strs), sep)

RECURSIVE Dedup(_)
\* the distinct elements of a sequence in order of first appearance (new Set)
Dedup(seq) ==
    IF seq = <<>> THEN <<>>
    ELSE LET front == Dedup(SubSeq(seq, 1, Len(seq) - 1))
             x == seq[Len(seq)]
         IN  IF \E i \in DOMAIN front : front[i] = x THEN front
             ELSE Append(front, x)

\* Object.keys(node.inputs)
KeysOf(inputs) == [i \in DOMAIN inputs |-> inputs[i].name]

\* normalizeConnection that keeps the node id in place of the class type
normalizeConnectionById(nodes, connection) ==
    IF ~HasNode(nodes, connection.s)
    THEN "UNKNOWN:" \o ToString(connection.n)
    ELSE connection.s \o ":" \o ToString(connection.n)

normalizeConnection(nodes, connection) ==
    IF ~HasNode(nodes, connection.s)
    THEN "UNKNOWN:" \o ToString(connection.n)
    ELSE NodeOf(nodes, connection.s).class_type \o ":" \o ToString(connection.n)

\* normalized[key] of hashNodeInputs
NormalizedInput(nodes, value) ==
    IF isNodeConnection(value) THEN normalizeConnection(nodes, value)
    ELSE JsonStringify(value)

\* hashNodeInputs that joins the sorted keys and leaves the values out
hashNodeInputsKeysOnly(nodes, node) ==
    Join(SelectSeq(InputNames, LAMBDA k : k \in InputNamesOf(node.inputs)), "|")

hashNodeInputs(nodes, node) ==
    LET sortedKeys == SelectSeq(SortedNames, LAMBDA k : k \in InputNamesOf(node.inputs))
    IN  Join([i \in DOMAIN sortedKeys |->
                 sortedKeys[i] \o ":"
                 \o NormalizedInput(nodes, InputOf(node.inputs, sortedKeys[i]))],
             "|")

\* a StructuralDiff pushed by compareNodeInputs; getStructuralDiff adds classType
InputDiff(type, inputName, expected, actual, text) ==
    [type |-> type, classType |-> ABSENT, inputName |-> inputName,
     expected |-> expected, actual |-> actual,
     details |-> "Input \"" \o inputName \o "\": " \o text]

\* the connection branch with both connections looked up in this workflow
ConnectionDiffOwnLookup(nodes, otherWorkflow, inputName, thisValue, otherValue) ==
    LET thisNormalized == normalizeConnection(nodes, thisValue)
        otherNormalized == normalizeConnection(nodes, otherValue)
    IN  IF thisNormalized # otherNormalized
        THEN <<InputDiff("connection_mismatch", inputName,
                         Str(otherNormalized), Str(thisNormalized),
                         "connection mismatch - expected " \o otherNormalized
                         \o ", got " \o thisNormalized)>>
        ELSE <<>>

\* the branch of compareNodeInputs for two connections
ConnectionDiff(nodes, otherWorkflow, inputName, thisValue, otherValue) ==
    LET thisNormalized == normalizeConnection(nodes, thisValue)
        otherNormalized == normalizeConnection(otherWorkflow, otherValue)
    IN  IF thisNormalized # otherNormalized
        THEN <<InputDiff("connection_mismatch", inputName,
                         Str(otherNormalized), Str(thisNormalized),
                         "connection mismatch - expected " \o otherNormalized
                         \o ", got " \o thisNormalized)>>
        ELSE <<>>

\* the literal branch without the case of an input only this workflow has
LiteralDiffNoExtra(inputName, thisValue, otherValue) ==
    IF thisValue # otherValue /\ otherValue # UNDEFINED
    THEN IF thisValue = UNDEFINED
         THEN <<InputDiff("input_mismatch", inputName, otherValue, UNDEFINED,
                          "missing in this workflow")>>
         ELSE <<InputDiff("input_mismatch", inputName, otherValue, thisValue,
                          "expected " \o JsonStringify(otherValue)
                          \o ", got " \o JsonStringify(thisValue))>>
    ELSE <<>>

\* the literal branch with expected and actual exchanged
LiteralDiffExchanged(inputName, thisValue, otherValue) ==
    IF thisValue # otherValue
    THEN IF thisValue = UNDEFINED
         THEN <<InputDiff("input_mismatch", inputName, otherValue, UNDEFINED,
                          "missing in this workflow")>>
         ELSE IF otherValue = UNDEFINED
         THEN <<InputDiff("input_mismatch", inputName, UNDEFINED, thisValue,
                          "extra in this workflow")>>
         ELSE <<InputDiff("input_mismatch", inputName, thisValue, otherValue,
                          "expected " \o JsonStringify(otherValue)
                          \o ", got " \o JsonStringify(thisValue))>>
    ELSE <<>>

\* the literal branch with one text for an input only one workflow has
LiteralDiffOneText(inputName, thisValue, otherValue) ==
    IF thisValue # otherValue
    THEN IF thisValue = UNDEFINED
         THEN <<InputDiff("input_mismatch", inputName, otherValue, UNDEFINED,
                          "missing in this workflow")>>
         ELSE IF otherValue = UNDEFINED
         THEN <<InputDiff("input_mismatch", inputName, UNDEFINED, thisValue,
                          "missing in this workflow")>>
         ELSE <<InputDiff("input_mismatch", inputName, otherValue, thisValue,
                          "expected " \o JsonStringify(otherValue)
                          \o ", got " \o JsonStringify(thisValue))>>
    ELSE <<>>

\* the branch of compareNodeInputs for two values that are not connections
LiteralDiff(inputName, thisValue, otherValue) ==
    IF thisValue # otherValue
    THEN IF thisValue = UNDEFINED
         THEN <<InputDiff("input_mismatch", inputName, otherValue, UNDEFINED,
                          "missing in this workflow")>>
         ELSE IF otherValue = UNDEFINED
         THEN <<InputDiff("input_mismatch", inputName, UNDEFINED, thisValue,
                          "extra in this workflow")>>
         ELSE <<InputDiff("input_mismatch", inputName, otherValue, thisValue,
                          "expected " \o JsonStringify(otherValue)
                          \o ", got " \o JsonStringify(thisValue))>>
    ELSE <<>>

\* the entries compareNodeInputs pushes for one input name
CompareInput(nodes, thisNode, otherNode, otherWorkflow, inputName) ==
    LET thisValue == InputOf(thisNode.inputs, inputName)
        otherValue == InputOf(otherNode.inputs, inputName)
    IN  IF isNodeConnection(thisValue) /\ isNodeConnection(otherValue)
        THEN ConnectionDiff(nodes, otherWorkflow, inputName, thisValue, otherValue)
        ELSE IF isNodeConnection(thisValue) # isNodeConnection(otherValue)
        THEN <<InputDiff("input_mismatch", inputName, otherValue, thisValue,
                         "type mismatch - one is connection, other is value")>>
        ELSE LiteralDiff(inputName, thisValue, otherValue)

compareNodeInputs(nodes, thisNode, otherNode, otherWorkflow) ==
    LET allInputNames == Dedup(KeysOf(thisNode.inputs) \o KeysOf(otherNode.inputs))
    IN  Flatten([i \in DOMAIN allInputNames |->
                    CompareInput(nodes, thisNode, otherNode, otherWorkflow,
                                 allInputNames[i])])

RECURSIVE MatchLoopDeletingLast(_, _, _, _, _)
\* the matching loop deleting the last unmatched index in place of the matched one
MatchLoopDeletingLast(i, thisHashes, otherHashes, unmatchedThis, unmatchedOther) ==
    IF i > Len(thisHashes)
    THEN [unmatchedThis |-> unmatchedThis, unmatchedOther |-> unmatchedOther]
    ELSE LET hit == {j \in unmatchedOther : thisHashes[i] = otherHashes[j]}
         IN  IF hit # {}
             THEN MatchLoopDeletingLast(i + 1, thisHashes, otherHashes, unmatchedThis,
                                        unmatchedOther \ {Max(unmatchedOther)})
             ELSE MatchLoopDeletingLast(i + 1, thisHashes, otherHashes,
                                        Append(unmatchedThis, i), unmatchedOther)

RECURSIVE MatchLoopPositional(_, _, _, _, _)
\* the matching loop trying for the i-th node the i-th node of the other side only
MatchLoopPositional(i, thisHashes, otherHashes, unmatchedThis, unmatchedOther) ==
    IF i > Len(thisHashes)
    THEN [unmatchedThis |-> unmatchedThis, unmatchedOther |-> unmatchedOther]
    ELSE LET hit == {j \in unmatchedOther : j = i /\ thisHashes[i] = otherHashes[j]}
         IN  IF hit # {}
             THEN MatchLoopPositional(i + 1, thisHashes, otherHashes, unmatchedThis,
                                      unmatchedOther \ {Min(hit)})
             ELSE MatchLoopPositional(i + 1, thisHashes, otherHashes,
                                      Append(unmatchedThis, i), unmatchedOther)

RECURSIVE MatchLoop(_, _, _, _, _)
\* the for loop of findBestNodeMatching from index i on
MatchLoop(i, thisHashes, otherHashes, unmatchedThis, unmatchedOther) ==
    IF i > Len(thisHashes)
    THEN [unmatchedThis |-> unmatchedThis, unmatchedOther |-> unmatchedOther]
    ELSE LET hit == {j \in unmatchedOther : thisHashes[i] = otherHashes[j]}
         IN  IF hit # {}
             THEN MatchLoop(i + 1, thisHashes, otherHashes, unmatchedThis,
                            unmatchedOther \ {Min(hit)})
             ELSE MatchLoop(i + 1, thisHashes, otherHashes,
                            Append(unmatchedThis, i), unmatchedOther)

\* findBestNodeMatching comparing the last unmatched node of the other workflow
findBestNodeMatchingLast(nodes, thisNodes, otherNodes, otherWorkflow) ==
    LET thisHashes == [i \in DOMAIN thisNodes |-> hashNodeInputs(nodes, thisNodes[i])]
        otherHashes ==
            [i \in DOMAIN otherNodes |-> hashNodeInputs(otherWorkflow, otherNodes[i])]
        m == MatchLoop(1, thisHashes, otherHashes, <<>>, DOMAIN otherHashes)
    IN  IF m.unmatchedThis # <<>> /\ m.unmatchedOther # {}
        THEN compareNodeInputs(nodes, thisNodes[m.unmatchedThis[1]],
                               otherNodes[Max(m.unmatchedOther)], otherWorkflow)
        ELSE <<>>

findBestNodeMatching(nodes, thisNodes, otherNodes, otherWorkflow) ==
    LET thisHashes == [i \in DOMAIN thisNodes |-> hashNodeInputs(nodes, thisNodes[i])]
        otherHashes ==
            [i \in DOMAIN otherNodes |-> hashNodeInputs(otherWorkflow, otherNodes[i])]
        m == MatchLoop(1, thisHashes, otherHashes, <<>>, DOMAIN otherHashes)
    IN  IF m.unmatchedThis # <<>> /\ m.unmatchedOther # {}
        THEN compareNodeInputs(nodes, thisNodes[m.unmatchedThis[1]],
                               otherNodes[Min(m.unmatchedOther)], otherWorkflow)
        ELSE <<>>

\* grouped[classType] || [] of groupNodesByType
groupNodesByType(nodes, classType) ==
    SelectSeq(nodes, LAMBDA n : n.class_type = classType)

\* groupNodesByType raises a TypeError: `grouped` is a plain object, so for a
\* class type that names a member of Object.prototype `!grouped[class_type]` is
\* false with no array created, and grouped[class_type].push is not a function
groupNodesByTypeThrows(nodes) ==
    \E i \in DOMAIN nodes : nodes[i].class_type \in PrototypeKeys

\* Object.keys(grouped) of groupNodesByType
GroupKeys(nodes) == Dedup([i \in DOMAIN nodes |-> nodes[i].class_type])

\* the loop body of getStructuralDiff without the `continue` after a count
\* mismatch: the first nodes of the class are compared as well
ClassDiffComparingOn(nodes, otherWorkflow, classType) ==
    LET thisNodes == groupNodesByType(nodes, classType)
        otherNodes == groupNodesByType(otherWorkflow, classType)
        tag(ds) == [i \in DOMAIN ds |-> [ds[i] EXCEPT !.classType = classType]]
        count ==
            IF Len(thisNodes) # Len(otherNodes)
            THEN <<[type |-> "class_type_count_mismatch", classType |-> classType,
                    inputName |-> ABSENT,
                    expected |-> Num(Len(otherNodes)), actual |-> Num(Len(thisNodes)),
                    details |-> classType \o ": expected " \o ToString(Len(otherNodes))
                                \o " nodes, got " \o ToString(Len(thisNodes))]>>
            ELSE <<>>
    IN  IF Len(thisNodes) = 1 /\ Len(otherNodes) >= 1
        THEN count \o tag(compareNodeInputs(nodes, thisNodes[1], otherNodes[1],
                                            otherWorkflow))
        ELSE IF Len(thisNodes) > 1
        THEN count \o tag(findBestNodeMatching(nodes, thisNodes, otherNodes,
                                               otherWorkflow))
        ELSE count

\* the entries getStructuralDiff pushes for one class type
ClassDiff(nodes, otherWorkflow, classType) ==
    LET thisNodes == groupNodesByType(nodes, classType)
        otherNodes == groupNodesByType(otherWorkflow, classType)
        tag(ds) == [i \in DOMAIN ds |-> [ds[i] EXCEPT !.classType = classType]]
    IN  IF Len(thisNodes) # Len(otherNodes)
        THEN <<[type |-> "class_type_count_mismatch", classType |-> classType,
                inputName |-> ABSENT,
                expected |-> Num(Len(otherNodes)), actual |-> Num(Len(thisNodes)),
                details |-> classType \o ": expected " \o ToString(Len(otherNodes))
                            \o " nodes, got " \o ToString(Len(thisNodes))]>>
        ELSE IF Len(thisNodes) = 1
        THEN tag(compareNodeInputs(nodes, thisNodes[1], otherNodes[1], otherWorkflow))
        ELSE IF Len(thisNodes) > 1
        THEN tag(findBestNodeMatching(nodes, thisNodes, otherNodes, otherWorkflow))
        ELSE <<>>

getStructuralDiff(nodes, otherWorkflow) ==
    LET allClassTypes == Dedup(GroupKeys(nodes) \o GroupKeys(otherWorkflow))
    IN  Flatten([i \in DOMAIN allClassTypes |->
                    ClassDiff(nodes, otherWorkflow, allClassTypes[i])])

isStructurallyEquivalentTo(nodes, otherWorkflow) ==
    Len(getStructuralDiff(nodes, otherWorkflow)) = 0

----------------------------------------------------------------------------
(* The workflow under test, driven through its public operations *)

\* a public call on wf: its name, the node id it names, and how it ended:
\* "ok", "threw", or "absent" when it returned early on a missing node
Call(op, id, outcome) == [op |-> op, id |-> id, outcome |-> outcome]

\* the inputs argument of addNode and updateInputs: at most one entry
InputArgs == {<<>>} \cup {<<[name |-> n, value |-> v]>> : n \in Names, v \in StoreValues}

RECURSIVE AssignAll(_, _)
\* Object.assign(inputs, more)
AssignAll(inputs, more) ==
    IF more = <<>> THEN inputs
    ELSE AssignAll(AssignInput(inputs, Head(more).name, Head(more).value), Tail(more))

updateInputs(nodes, nodeId, inputs) ==
    WithInputs(nodes, nodeId, AssignAll(NodeOf(nodes, nodeId).inputs, inputs))

WithinBounds(nodes) == Len(nodes) <= MaxNodes /\ SumLen(nodes) <= MaxInputs

\* a call on wf; the second workflow and the last diff belong to comparisons
Mutate(nodes, call) ==
    /\ WithinBounds(nodes)
    /\ wf' = nodes
    /\ last' = call
    /\ UNCHANGED <<other, diffs>>

Init ==
    /\ wf = <<>>
    /\ other = <<>>
    /\ diffs = <<>>
    /\ last = Call("new", "", "ok")

AddNode ==
    \E classType \in ClassTypes, inputs \in InputArgs, id \in Ids \cup {ABSENT} :
        LET nodeId == IF id = ABSENT THEN generateNodeId(wf) ELSE id
        IN  /\ nodeId \in Ids
            /\ IF HasNode(wf, nodeId)
               THEN Mutate(wf, Call("addNode", nodeId, "threw"))
               ELSE Mutate(addNode(wf, classType, inputs, nodeId),
                           Call("addNode", nodeId, "ok"))

RemoveNode ==
    \E nodeId \in Ids :
        Mutate(removeNode(wf, nodeId),
               Call("removeNode", nodeId, IF HasNode(wf, nodeId) THEN "ok" ELSE "absent"))

AddEdge ==
    \E sourceNodeId \in Ids, targetNodeId \in Ids, name \in Names :
        IF ~HasNode(wf, sourceNodeId) \/ ~HasNode(wf, targetNodeId)
        THEN Mutate(wf, Call("addEdge", targetNodeId, "threw"))
        ELSE Mutate(addEdge(wf, sourceNodeId, 0, targetNodeId, name),
                    Call("addEdge", targetNodeId, "ok"))

RemoveEdge ==
    \E targetNodeId \in Ids, name \in Names :
        Mutate(removeEdge(wf, targetNodeId, name),
               Call("removeEdge", targetNodeId,
                    IF HasNode(wf, targetNodeId) THEN "ok" ELSE "absent"))

SetInput ==
    \E nodeId \in Ids, name \in Names, value \in StoreValues :
        IF ~HasNode(wf, nodeId)
        THEN Mutate(wf, Call("setInput", nodeId, "threw"))
        ELSE Mutate(setInput(wf, nodeId, name, value), Call("setInput", nodeId, "ok"))

UpdateInputs ==
    \E nodeId \in Ids, inputs \in InputArgs :
        IF ~HasNode(wf, nodeId)
        THEN Mutate(wf, Call("updateInputs", nodeId, "threw"))
        ELSE Mutate(updateInputs(wf, nodeId, inputs), Call("updateInputs", nodeId, "ok"))

ClearInput ==
    \E nodeId \in Ids, name \in Names :
        Mutate(clearInput(wf, nodeId, name),
               Call("clearInput", nodeId, IF HasNode(wf, nodeId) THEN "ok" ELSE "absent"))

Next ==
    \/ AddNode
    \/ RemoveNode
    \/ AddEdge
    \/ RemoveEdge
    \/ SetInput
    \/ UpdateInputs
    \/ ClearInput

Spec == Init /\ [][Next]_vars

----------------------------------------------------------------------------
(* The workflow driven with literal arguments only: connections are made by *)
(* addEdge alone                                                            *)

LiteralArgs == {<<>>} \cup {<<[name |-> n, value |-> v]>> : n \in Names, v \in Literals}

AddLiteralNode ==
    \E classType \in ClassTypes, inputs \in LiteralArgs, id \in Ids \cup {ABSENT} :
        LET nodeId == IF id = ABSENT THEN generateNodeId(wf) ELSE id
        IN  /\ nodeId \in Ids
            /\ IF HasNode(wf, nodeId)
               THEN Mutate(wf, Call("addNode", nodeId, "threw"))
               ELSE Mutate(addNode(wf, classType, inputs, nodeId),
                           Call("addNode", nodeId, "ok"))

\* addEdge with any string as the source id: `!this.nodes[sourceNodeId]` is
\* false for a present node and for a member of Object.prototype
AddEdgeFrom ==
    \E sourceNodeId \in CallIds, targetNodeId \in Ids, name \in Names :
        IF ~Found(wf, sourceNodeId) \/ ~Found(wf, targetNodeId)
        THEN Mutate(wf, Call("addEdge", targetNodeId, "threw"))
        ELSE Mutate(addEdge(wf, sourceNodeId, 0, targetNodeId, name),
                    Call("addEdge", targetNodeId, "ok"))

SetLiteral ==
    \E nodeId \in Ids, name \in Names, value \in Literals :
        IF ~HasNode(wf, nodeId)
        THEN Mutate(wf, Call("setInput", nodeId, "threw"))
        ELSE Mutate(setInput(wf, nodeId, name, value), Call("setInput", nodeId, "ok"))

UpdateLiterals ==
    \E nodeId \in Ids, inputs \in LiteralArgs :
        IF ~HasNode(wf, nodeId)
        THEN Mutate(wf, Call("updateInputs", nodeId, "threw"))
        ELSE Mutate(updateInputs(wf, nodeId, inputs), Call("updateInputs", nodeId, "ok"))

NextLiteral ==
    \/ AddLiteralNode
    \/ RemoveNode
    \/ AddEdgeFrom
    \/ RemoveEdge
    \/ SetLiteral
    \/ UpdateLiterals
    \/ ClearInput

SpecLiteral == Init /\ [][NextLiteral]_vars

----------------------------------------------------------------------------
(* The workflow driven by addNode, addEdge, removeEdge and removeNode, with *)
(* addNode recording whether it generated the id                            *)

AddNodeRecording ==
    \E classType \in ClassTypes, inputs \in InputArgs, id \in Ids \cup {ABSENT} :
        LET nodeId == IF id = ABSENT THEN generateNodeId(wf) ELSE id
            call(outcome) == [op |-> "addNode", id |-> nodeId, outcome |-> outcome,
                              generated |-> (id = ABSENT)]
        IN  /\ nodeId \in Ids
            /\ IF HasNode(wf, nodeId)
               THEN Mutate(wf, call("threw"))
               ELSE Mutate(addNode(wf, classType, inputs, nodeId), call("ok"))

NextReuse ==
    \/ AddNodeRecording
    \/ RemoveNode
    \/ AddEdge
    \/ RemoveEdge

SpecReuse == Init /\ [][NextReuse]_vars

----------------------------------------------------------------------------
(* Comparisons of two workflows *)

Workflow(w) == IF w = "wf" THEN wf ELSE other

\* a comparison that leaves the inputs of the receiver's nodes sorted by key, as
\* hashNodeInputs lists them
CompareSortingInputs(recv, arg) ==
    /\ diffs' = getStructuralDiff(Workflow(recv), Workflow(arg))
    /\ last' = Call("getStructuralDiff", recv \o "," \o arg, "ok")
    /\ LET sorted(nodes) ==
               [i \in DOMAIN nodes |->
                   [nodes[i] EXCEPT !.inputs =
                       LET keys == SelectSeq(SortedNames,
                                             LAMBDA k : k \in InputNamesOf(nodes[i].inputs))
                       IN  [j \in DOMAIN keys |->
                               [name |-> keys[j],
                                value |-> InputOf(nodes[i].inputs, keys[j])]]]]
       IN  IF recv = "wf"
           THEN wf' = sorted(wf) /\ UNCHANGED other
           ELSE other' = sorted(other) /\ UNCHANGED wf

\* recv.getStructuralDiff(arg); last.id names the receiver and the argument
Compare(recv, arg) ==
    /\ diffs' = getStructuralDiff(Workflow(recv), Workflow(arg))
    /\ last' = Call("getStructuralDiff", recv \o "," \o arg, "ok")
    /\ UNCHANGED <<wf, other>>

Compared(recv, arg) == last.op = "getStructuralDiff" /\ last.id = recv \o "," \o arg

\* the input maps of a node: distinct names, in any insertion order
InputMaps ==
    {<<>>}
    \cup {<<[name |-> n, value |-> v]>> : n \in Names, v \in Values}
    \cup {m \in {<<[name |-> n1, value |-> v1], [name |-> n2, value |-> v2]>> :
                    n1 \in Names, n2 \in Names, v1 \in Values, v2 \in Values} :
            m[1].name # m[2].name}

RECURSIVE GraphsOver(_, _)
\* the workflows of at most k nodes with ids among `ids` and at most MaxInputs
\* inputs, each built by k calls of addNode
GraphsOver(ids, k) ==
    IF k = 0 THEN {<<>>}
    ELSE LET smaller == GraphsOver(ids, k - 1)
             extend(g) ==
                 {addNode(g, c, m, id) :
                     id \in ids \ NodeIds(g),
                     c \in ClassTypes,
                     m \in {im \in InputMaps : SumLen(g) + Len(im) <= MaxInputs}}
         IN  smaller \cup UNION {extend(g) : g \in smaller}

----------------------------------------------------------------------------
(* A workflow and its copy under a renaming of the node ids *)

\* the injective maps of node ids
Renamings == {r \in [Ids -> Ids] : \A i, j \in Ids : r[i] = r[j] => i = j}

RenameNode(node, r) ==
    [id |-> r[node.id], class_type |-> node.class_type,
     inputs |-> [i \in DOMAIN node.inputs |->
                    IF isNodeConnection(node.inputs[i].value)
                    THEN [node.inputs[i] EXCEPT !.value.s = r[@]]
                    ELSE node.inputs[i]]]

RECURSIVE InsertAll(_, _)
\* a workflow built by inserting the given nodes one after the other
InsertAll(nodes, more) ==
    IF more = <<>> THEN nodes
    ELSE InsertAll(InsertNode(nodes, Head(more)), Tail(more))

Renamed(nodes, r) == InsertAll(<<>>, [i \in DOMAIN nodes |-> RenameNode(nodes[i], r)])

BuildRenamed ==
    \E r \in Renamings :
        /\ other' = Renamed(wf, r)
        /\ last' = Call("rename", "", "ok")
        /\ diffs' = <<>>
        /\ UNCHANGED wf

Graphs == GraphsOver(Ids, MaxNodes)

InitRename ==
    /\ wf \in Graphs
    /\ other = <<>>
    /\ diffs = <<>>
    /\ last = Call("new", "", "ok")

NextRename ==
    \/ BuildRenamed
    \/ Compare("wf", "wf")
    \/ Compare("wf", "other")
    \/ Compare("other", "wf")

SpecRename == InitRename /\ [][NextRename]_vars

----------------------------------------------------------------------------
(* Two workflows built independently *)

DiffIds == {ToString(n) : n \in 1..MaxNodes}

DiffGraphs == GraphsOver(DiffIds, MaxNodes)
DiffGraphsOfSize == [k \in 0..MaxInputs |-> {g \in DiffGraphs : SumLen(g) = k}]

\* the two workflows hold at most MaxInputs inputs together
InitDiff ==
    /\ \E a \in 0..MaxInputs, b \in 0..MaxInputs :
          /\ a + b <= MaxInputs
          /\ wf \in DiffGraphsOfSize[a]
          /\ other \in DiffGraphsOfSize[b]
    /\ diffs = <<>>
    /\ last = Call("new", "", "ok")

NextDiff == Compare("wf", "other")

SpecDiff == InitDiff /\ [][NextDiff]_vars

----------------------------------------------------------------------------
(* Two workflows of equally many nodes, all of one class type *)

MatchIds == {ToString(n) : n \in 1..MaxMatchNodes}
MatchValues == Literals \cup {Conn("1", 0)}

MatchMaps == {m \in InputMaps : \A i \in DOMAIN m : m[i].value \in MatchValues}

RECURSIVE MatchGraphsOver(_)
\* the workflows of at most k nodes of class "K", each built by k calls of addNode
MatchGraphsOver(k) ==
    IF k = 0 THEN {<<>>}
    ELSE LET smaller == MatchGraphsOver(k - 1)
             extend(g) ==
                 {addNode(g, "K", m, id) :
                     id \in MatchIds \ NodeIds(g),
                     m \in {im \in MatchMaps : SumLen(g) + Len(im) <= MaxInputs}}
         IN  smaller \cup UNION {extend(g) : g \in smaller}

MatchGraphs == MatchGraphsOver(MaxMatchNodes)
MatchGraphsOfLen == [k \in 0..MaxMatchNodes |-> {g \in MatchGraphs : Len(g) = k}]

\* the counts of the class agree, so that its nodes are compared or matched
InitMatch ==
    /\ \E k \in 0..MaxMatchNodes :
          /\ wf \in MatchGraphsOfLen[k]
          /\ other \in MatchGraphsOfLen[k]
    /\ diffs = <<>>
    /\ last = Call("new", "", "ok")

NextMatch == Compare("wf", "other")

SpecMatch == InitMatch /\ [][NextMatch]_vars

----------------------------------------------------------------------------
(* Two workflows of MaxNodes nodes of one class type, with any string as an *)
(* input name                                                               *)

HashNames == {SortedNames[i] : i \in DOMAIN SortedNames}
HashValues == {Num(1), Conn("1", 0)}

\* the input maps over HashNames: distinct names, in any insertion order
HashMaps ==
    {<<>>}
    \cup {<<[name |-> n, value |-> v]>> : n \in HashNames, v \in HashValues}
    \cup {m \in {<<[name |-> n1, value |-> v1], [name |-> n2, value |-> v2]>> :
                    n1 \in HashNames, n2 \in HashNames,
                    v1 \in HashValues, v2 \in HashValues} :
            m[1].name # m[2].name}

\* the workflows of MaxNodes nodes of class "K" and at most MaxInputs inputs,
\* built by two calls of addNode
HashGraphs ==
    UNION {{addNode(addNode(<<>>, "K", m1, "1"), "K", m2, "2") :
               m2 \in {m \in HashMaps : Len(m1) + Len(m) <= MaxInputs}} :
           m1 \in HashMaps}

InitHash ==
    /\ wf \in HashGraphs
    /\ other \in HashGraphs
    /\ diffs = <<>>
    /\ last = Call("new", "", "ok")

NextHash == Compare("wf", "other")

SpecHash == InitHash /\ [][NextHash]_vars

----------------------------------------------------------------------------
(* Two workflows whose class types are any strings *)

AnyClassTypes == ClassTypes \cup PrototypeKeys
ClassInputs == {<<>>, <<[name |-> "a", value |-> Num(1)]>>}

RECURSIVE ClassGraphsOver(_)
\* the workflows of at most k nodes, each built by k calls of addNode
ClassGraphsOver(k) ==
    IF k = 0 THEN {<<>>}
    ELSE LET smaller == ClassGraphsOver(k - 1)
             extend(g) ==
                 {addNode(g, c, m, id) :
                     id \in DiffIds \ NodeIds(g), c \in AnyClassTypes, m \in ClassInputs}
         IN  smaller \cup UNION {extend(g) : g \in smaller}

ClassGraphs == ClassGraphsOver(MaxNodes)

InitClass ==
    /\ wf \in ClassGraphs
    /\ other \in ClassGraphs
    /\ diffs = <<>>
    /\ last = Call("new", "", "ok")

\* wf.getStructuralDiff(other), which groups the nodes of both workflows first
CompareGrouping ==
    IF groupNodesByTypeThrows(wf) \/ groupNodesByTypeThrows(other)
    THEN /\ last' = Call("getStructuralDiff", "wf,other", "threw")
         /\ UNCHANGED <<wf, other, diffs>>
    ELSE Compare("wf", "other")

NextClass == CompareGrouping

SpecClass == InitClass /\ [][NextClass]_vars

----------------------------------------------------------------------------
(* One public call on a workflow, recorded with its arguments and its result *)

\* the workflows the calls are made on: connections on port 0
OpGraphs ==
    {g \in DiffGraphs :
        \A i \in DOMAIN g : \A k \in DOMAIN g[i].inputs : g[i].inputs[k].value \in StoreValues}

\* a returned array or boolean
Returned(v) == [kind |-> "returned", v |-> v]

\* the call `op(args)` on wf leaves the node map `nodes`, returns `result` and
\* ends with `outcome`
Invoke(op, args, nodes, result, outcome) ==
    /\ wf' = nodes
    /\ last' = [op |-> op, id |-> args.id, outcome |-> outcome,
                args |-> args, result |-> result, before |-> wf]
    /\ UNCHANGED <<other, diffs>>

\* no call was made yet: each behaviour makes one call on a workflow of the family
Idle == last.op = "new"

InitOps ==
    /\ wf \in OpGraphs
    /\ other = <<>>
    /\ diffs = <<>>
    /\ last = Call("new", "", "ok")

InvokeAddNode ==
    /\ Idle
    /\ \E classType \in ClassTypes, inputs \in InputArgs, id \in CallIds \cup {ABSENT} :
        LET nodeId == IF id = ABSENT THEN generateNodeId(wf) ELSE id
            args == [id |-> id, classType |-> classType, inputs |-> inputs]
        IN  IF Found(wf, nodeId)
            THEN Invoke("addNode", args, wf, UNDEFINED, "threw")
            ELSE Invoke("addNode", args, addNode(wf, classType, inputs, nodeId),
                        Str(nodeId), "ok")

InvokeRemoveNode ==
    /\ Idle
    /\ \E nodeId \in CallIds :
        Invoke("removeNode", [id |-> nodeId], removeNode(wf, nodeId), UNDEFINED, "ok")

\* setting an input of an inherited function is a TypeError
InvokeAddEdge ==
    /\ Idle
    /\ \E sourceNodeId \in CallIds, sourcePort \in Ports, targetNodeId \in CallIds,
          name \in Names :
        LET args == [id |-> targetNodeId, name |-> name,
                     source |-> sourceNodeId, port |-> sourcePort]
        IN  IF ~Found(wf, sourceNodeId) \/ ~Found(wf, targetNodeId)
            THEN Invoke("addEdge", args, wf, UNDEFINED, "threw")
            ELSE IF Inherited(wf, targetNodeId)
            THEN Invoke("addEdge", args, wf, UNDEFINED, "threw")
            ELSE Invoke("addEdge", args,
                        addEdge(wf, sourceNodeId, sourcePort, targetNodeId, name),
                        UNDEFINED, "ok")

\* reading an input of an inherited function is a TypeError
InvokeRemoveEdge ==
    /\ Idle
    /\ \E targetNodeId \in CallIds, name \in Names :
        LET args == [id |-> targetNodeId, name |-> name]
        IN  IF Inherited(wf, targetNodeId)
            THEN Invoke("removeEdge", args, wf, UNDEFINED, "threw")
            ELSE Invoke("removeEdge", args, removeEdge(wf, targetNodeId, name),
                        UNDEFINED, "ok")

InvokeSetInput ==
    /\ Idle
    /\ \E nodeId \in CallIds, name \in Names, value \in StoreValues :
        LET args == [id |-> nodeId, name |-> name, value |-> value]
        IN  IF ~Found(wf, nodeId)
            THEN Invoke("setInput", args, wf, UNDEFINED, "threw")
            ELSE IF Inherited(wf, nodeId)
            THEN Invoke("setInput", args, wf, UNDEFINED, "threw")
            ELSE Invoke("setInput", args, setInput(wf, nodeId, name, value),
                        UNDEFINED, "ok")

\* Object.assign with the target undefined is a TypeError
InvokeUpdateInputs ==
    /\ Idle
    /\ \E nodeId \in CallIds, inputs \in InputArgs :
        LET args == [id |-> nodeId, inputs |-> inputs]
        IN  IF ~Found(wf, nodeId)
            THEN Invoke("updateInputs", args, wf, UNDEFINED, "threw")
            ELSE IF Inherited(wf, nodeId)
            THEN Invoke("updateInputs", args, wf, UNDEFINED, "threw")
            ELSE Invoke("updateInputs", args, updateInputs(wf, nodeId, inputs),
                        UNDEFINED, "ok")

\* deleting an input of an inherited function is a TypeError
InvokeClearInput ==
    /\ Idle
    /\ \E nodeId \in CallIds, name \in Names :
        LET args == [id |-> nodeId, name |-> name]
        IN  IF Inherited(wf, nodeId)
            THEN Invoke("clearInput", args, wf, UNDEFINED, "threw")
            ELSE Invoke("clearInput", args, clearInput(wf, nodeId, name),
                        UNDEFINED, "ok")

\* JSON.stringify of a function is undefined, which JSON.parse rejects
InvokeGetNode ==
    /\ Idle
    /\ \E nodeId \in CallIds :
        IF Inherited(wf, nodeId)
        THEN Invoke("getNode", [id |-> nodeId], wf, UNDEFINED, "threw")
        ELSE Invoke("getNode", [id |-> nodeId], wf, getNode(wf, nodeId), "ok")

InvokeGetInput ==
    /\ Idle
    /\ \E nodeId \in CallIds, name \in Names :
        LET args == [id |-> nodeId, name |-> name]
        IN  IF Inherited(wf, nodeId)
            THEN Invoke("getInput", args, wf, UNDEFINED, "threw")
            ELSE Invoke("getInput", args, wf, getInput(wf, nodeId, name), "ok")

InvokeGetInputs ==
    /\ Idle
    /\ \E nodeId \in CallIds :
        Invoke("getInputs", [id |-> nodeId], wf, getInputs(wf, nodeId), "ok")

InvokeGetEdges ==
    /\ Idle
    /\ Invoke("getEdges", [id |-> ""], wf, Returned(getEdges(wf)), "ok")

InvokeGetEdgesFrom ==
    /\ Idle
    /\ \E sourceNodeId \in CallIds :
        Invoke("getEdgesFrom", [id |-> sourceNodeId], wf,
               Returned(getEdgesFrom(wf, sourceNodeId)), "ok")

InvokeGetEdgesTo ==
    /\ Idle
    /\ \E targetNodeId \in CallIds :
        Invoke("getEdgesTo", [id |-> targetNodeId], wf,
               Returned(getEdgesTo(wf, targetNodeId)), "ok")

InvokeHasConnection ==
    /\ Idle
    /\ \E sourceNodeId \in CallIds, targetNodeId \in CallIds :
        Invoke("hasConnection", [id |-> targetNodeId, source |-> sourceNodeId], wf,
               Returned(hasConnection(wf, sourceNodeId, targetNodeId)), "ok")

NextOps ==
    \/ InvokeAddNode
    \/ InvokeRemoveNode
    \/ InvokeAddEdge
    \/ InvokeRemoveEdge
    \/ InvokeSetInput
    \/ InvokeUpdateInputs
    \/ InvokeClearInput
    \/ InvokeGetNode
    \/ InvokeGetInput
    \/ InvokeGetInputs
    \/ InvokeGetEdges
    \/ InvokeGetEdgesFrom
    \/ InvokeGetEdgesTo
    \/ InvokeHasConnection

SpecOps == InitOps /\ [][NextOps]_vars

----------------------------------------------------------------------------
(* addNode on workflows with numeric, custom and mixed ids *)

KeyIds == {"1", "2", "3", "x", "1x", "3x"}

RECURSIVE KeyGraphsOver(_)
\* the workflows of at most k nodes without inputs, built by k calls of addNode
KeyGraphsOver(k) ==
    IF k = 0 THEN {<<>>}
    ELSE LET smaller == KeyGraphsOver(k - 1)
             extend(g) ==
                 {addNode(g, c, <<>>, id) : id \in KeyIds \ NodeIds(g), c \in ClassTypes}
         IN  smaller \cup UNION {extend(g) : g \in smaller}

KeyGraphs == KeyGraphsOver(MaxKeyNodes)

InitIds ==
    /\ wf \in KeyGraphs
    /\ other = <<>>
    /\ diffs = <<>>
    /\ last = Call("new", "", "ok")

NextIds == InvokeAddNode

SpecIds == InitIds /\ [][NextIds]_vars

----------------------------------------------------------------------------
(* JSON export and import *)

NULL == [kind |-> "null", s |-> "", n |-> 0]

\* a JSON text is the sequence of its tokens
Tok(t, s) == [t |-> t, s |-> s]

\* JSON.stringify that writes a number as a string
ValueTokensQuoting(value) ==
    CASE value.kind = "num" -> <<Tok("str", ToString(value.n))>>
      [] value.kind = "str" -> <<Tok("str", value.s)>>
      [] value.kind = "conn" ->
            <<Tok("[", ""), Tok("str", value.s), Tok("num", ToString(value.n)), Tok("]", "")>>
      [] OTHER -> <<Tok("null", "")>>

\* JSON.stringify of an input value
ValueTokens(value) ==
    CASE value.kind = "num" -> <<Tok("num", ToString(value.n))>>
      [] value.kind = "str" -> <<Tok("str", value.s)>>
      [] value.kind = "conn" ->
            <<Tok("[", ""), Tok("str", value.s), Tok("num", ToString(value.n)), Tok("]", "")>>
      [] OTHER -> <<Tok("null", "")>>

\* JSON.stringify of an object of values: a property that is undefined is left out
EntriesTokens(entries) ==
    <<Tok("{", "")>>
    \o Flatten([i \in DOMAIN entries |->
           IF entries[i].value = UNDEFINED THEN <<>>
           ELSE <<Tok("key", entries[i].name)>> \o ValueTokens(entries[i].value)])
    \o <<Tok("}", "")>>

\* JSON.stringify of a node: the properties it has, in the order addNode sets them
NodeTokens(node) ==
    <<Tok("{", "")>>
    \o (IF "inputs" \in DOMAIN node
        THEN <<Tok("key", "inputs")>> \o EntriesTokens(node.inputs) ELSE <<>>)
    \o (IF "class_type" \in DOMAIN node
        THEN <<Tok("key", "class_type"), Tok("str", node.class_type)>> ELSE <<>>)
    \o (IF "_meta" \in DOMAIN node
        THEN <<Tok("key", "_meta")>> \o EntriesTokens(node._meta) ELSE <<>>)
    \o <<Tok("}", "")>>

\* JSON.stringify(this.nodes)
StringifyNodes(nodes) ==
    <<Tok("{", "")>>
    \o Flatten([i \in DOMAIN nodes |-> <<Tok("key", nodes[i].id)>> \o NodeTokens(nodes[i])])
    \o <<Tok("}", "")>>

Rest(toks, k) == SubSeq(toks, k, Len(toks))

\* JSON.parse of the value a text starts with, and the text that follows it
ParseValue(toks) ==
    CASE toks[1].t = "num" ->
            [v |-> Num(CHOOSE n \in 0..9 : ToString(n) = toks[1].s), rest |-> Rest(toks, 2)]
      [] toks[1].t = "str" -> [v |-> Str(toks[1].s), rest |-> Rest(toks, 2)]
      [] toks[1].t = "[" ->
            [v |-> Conn(toks[2].s, CHOOSE n \in 0..9 : ToString(n) = toks[3].s),
             rest |-> Rest(toks, 5)]
      [] OTHER -> [v |-> NULL, rest |-> Rest(toks, 2)]

RECURSIVE ParseEntries(_, _)
\* the properties of an object of values, after its opening brace
ParseEntries(toks, entries) ==
    IF toks[1].t = "}" THEN [v |-> entries, rest |-> Rest(toks, 2)]
    ELSE LET value == ParseValue(Rest(toks, 2))
         IN  ParseEntries(value.rest, AssignInput(entries, toks[1].s, value.v))

\* node[key] = value
WithProperty(node, key, value) ==
    [x \in (DOMAIN node) \cup {key} |-> IF x = key THEN value ELSE node[x]]

RECURSIVE ParseProperties(_, _)
\* the properties of a node, after its opening brace
ParseProperties(toks, node) ==
    IF toks[1].t = "}" THEN [v |-> node, rest |-> Rest(toks, 2)]
    ELSE IF toks[1].s = "class_type"
    THEN ParseProperties(Rest(toks, 3), WithProperty(node, "class_type", toks[2].s))
    ELSE LET entries == ParseEntries(Rest(toks, 3), <<>>)
         IN  ParseProperties(entries.rest, WithProperty(node, toks[1].s, entries.v))

RECURSIVE ParseNodes(_, _)
\* the nodes of a workflow, after its opening brace
ParseNodes(toks, nodes) ==
    IF toks[1].t = "}" THEN nodes
    ELSE LET node == ParseProperties(Rest(toks, 3), [id |-> toks[1].s])
         IN  ParseNodes(node.rest, InsertNode(nodes, node.v))

\* JSON.parse of the text of a workflow
JsonParse(toks) == ParseNodes(Rest(toks, 2), <<>>)

\* a text that JSON.parse accepts
IsJsonText(toks) == toks # <<>>

isComfyNode(value) == "class_type" \in DOMAIN value /\ "inputs" \in DOMAIN value
isComfyWorkflowJson(value) == \A i \in DOMAIN value : isComfyNode(value[i])

toJson(nodes) == JsonParse(StringifyNodes(nodes))
getNodes(nodes) == JsonParse(StringifyNodes(nodes))

\* addNode with options.meta set
addNodeMeta(nodes, classType, inputs, nodeId, meta) ==
    InsertNode(nodes, [id |-> nodeId, class_type |-> classType, inputs |-> inputs,
                       _meta |-> meta])

JsonIds == {"1", "2", "x", "y"}
JsonInputs ==
    {<<>>,
     <<[name |-> "a", value |-> NULL]>>,
     <<[name |-> "a", value |-> Str("1")]>>,
     <<[name |-> "b", value |-> Num(1)], [name |-> "a", value |-> Conn("2", 0)]>>}
\* options.meta: {}, { title: 'T' } and { title: undefined }
Metas == {<<>>, <<[name |-> "title", value |-> Str("T")]>>,
          <<[name |-> "title", value |-> UNDEFINED]>>}

RECURSIVE JsonGraphsOver(_)
\* the workflows of at most k nodes built by k calls of addNode
JsonGraphsOver(k) ==
    IF k = 0 THEN {<<>>}
    ELSE LET smaller == JsonGraphsOver(k - 1)
             extend(g) ==
                 {addNode(g, c, inputs, id) :
                     id \in JsonIds \ NodeIds(g), c \in ClassTypes, inputs \in JsonInputs}
                 \cup
                 {addNodeMeta(g, "K", inputs, id, meta) :
                     id \in JsonIds \ NodeIds(g), meta \in Metas, inputs \in JsonInputs}
         IN  smaller \cup UNION {extend(g) : g \in smaller}

JsonGraphs == JsonGraphsOver(MaxJsonNodes)

\* no property of the object is undefined
IsSerialized(nodes) ==
    \A i \in DOMAIN nodes :
        "_meta" \in DOMAIN nodes[i]
           => \A k \in DOMAIN nodes[i]._meta : nodes[i]._meta[k].value # UNDEFINED

\* the object without the class_type of its first node
WithoutClassType(nodes) ==
    [i \in DOMAIN nodes |->
        IF i = 1 THEN [x \in (DOMAIN nodes[i]) \ {"class_type"} |-> nodes[i][x]]
        ELSE nodes[i]]

\* the serialized graphs a caller holds: objects with the content of a
\* workflow of the family, and such an object with a class_type missing
CallerObjects(nodes) ==
    IF ~IsSerialized(nodes) THEN {}
    ELSE {nodes} \cup (IF nodes = <<>> THEN {} ELSE {WithoutClassType(nodes)})

Reverse(seq) == [i \in DOMAIN seq |-> seq[Len(seq) + 1 - i]]

\* the texts a caller holds: of an object, of the object with its nodes
\* written in the opposite order, and a text that is not JSON
CallerTexts(nodes) ==
    {[of |-> J, text |-> StringifyNodes(J)] : J \in CallerObjects(nodes)}
    \cup {[of |-> J, text |-> StringifyNodes(Reverse(J))] : J \in CallerObjects(nodes)}
    \cup {[of |-> nodes, text |-> <<>>]}

\* fromJson(json) for an object or a text; the workflow it returns is other
FromJson(form, of, isText, json) ==
    LET args == [id |-> "", form |-> form, of |-> of]
        call(outcome) == [op |-> "fromJson", id |-> "", outcome |-> outcome,
                          args |-> args, result |-> UNDEFINED, before |-> wf]
    IN  /\ UNCHANGED <<wf, diffs>>
        /\ IF isText /\ ~IsJsonText(json)
           THEN other' = other /\ last' = call("threw")
           ELSE LET parsed == IF isText THEN JsonParse(json) ELSE json
                IN  IF ~isComfyWorkflowJson(parsed)
                    THEN other' = other /\ last' = call("threw")
                    ELSE /\ other' = JsonParse(StringifyNodes(parsed))
                         /\ last' = call("ok")

InitJson ==
    /\ wf \in JsonGraphs
    /\ other = <<>>
    /\ diffs = <<>>
    /\ last = Call("new", "", "ok")

InvokeToJson ==
    /\ Idle
    /\ Invoke("toJson", [id |-> ""], wf, Returned(toJson(wf)), "ok")

\* fromJson(G.toJson())
ImportExport ==
    /\ Idle
    /\ FromJson("export", toJson(wf), FALSE, toJson(wf))

ImportObject ==
    /\ Idle
    /\ \E J \in CallerObjects(wf) : FromJson("object", J, FALSE, J)

ImportText ==
    /\ Idle
    /\ \E J \in CallerTexts(wf) : FromJson("text", J.of, TRUE, J.text)

NextJson == InvokeToJson \/ ImportExport \/ ImportObject \/ ImportText

SpecJson == InitJson /\ [][NextJson]_vars

----------------------------------------------------------------------------
(* References to Connection arrays that a caller and a workflow both hold *)

\* the input `name` of node `id` of workflow w ("wf" or "other")
Cell(w, id, name) == [w |-> w, id |-> id, name |-> name]

\* a Connection array the caller holds, and the inputs that are that very array
Held(cells, value) == [cells |-> cells, value |-> value]

\* the Connection arrays of an inputs object the caller holds: the arrays of
\* the node's inputs themselves when shared, copies of them otherwise
HeldOf(w, nodeId, inputs, shared) ==
    {Held(IF shared THEN {Cell(w, nodeId, inputs[k].name)} ELSE {}, inputs[k].value) :
        k \in {k \in DOMAIN inputs : isNodeConnection(inputs[k].value)}}

\* the Connection arrays of a deep copy of the nodes
HeldCopies(nodes) ==
    UNION {HeldOf("wf", nodes[i].id, nodes[i].inputs, FALSE) : i \in DOMAIN nodes}

\* the Connection arrays in the expected and actual fields of the entries of a
\* comparison of one node with one node: the type-mismatch entry carries the
\* values of the two nodes as they are
HeldOfDiffs(entries, thisNode, otherNode) ==
    LET typed == {k \in DOMAIN entries : entries[k].type = "input_mismatch"}
    IN  {Held({Cell("wf", thisNode.id, entries[k].inputName)}, entries[k].actual) :
            k \in {k \in typed : isNodeConnection(entries[k].actual)}}
        \cup
        {Held({Cell("other", otherNode.id, entries[k].inputName)}, entries[k].expected) :
            k \in {k \in typed : isNodeConnection(entries[k].expected)}}

findNodesByType(nodes, classType) ==
    LET found == SelectSeq(nodes, LAMBDA n : n.class_type = classType)
    IN  [k \in DOMAIN found |-> [id |-> found[k].id, node |-> found[k]]]

\* the nodes after array[0] and array[1] of a held array were assigned
WriteCells(nodes, w, cells, value) ==
    [i \in DOMAIN nodes |->
        LET inputs == nodes[i].inputs
        IN  [nodes[i] EXCEPT !.inputs =
                [k \in DOMAIN inputs |->
                    IF Cell(w, nodes[i].id, inputs[k].name) \in cells
                    THEN [name |-> inputs[k].name, value |-> value]
                    ELSE inputs[k]]]]

\* a call after which the caller holds references
AliasCall(op, id, held) ==
    [op |-> op, id |-> id, outcome |-> "ok", held |-> held, from |-> ""]

\* the second workflow of a comparison: one node with a literal or a connection
AliasOthers ==
    {addNode(<<>>, "K", <<[name |-> "a", value |-> v]>>, "1") : v \in {Num(1), Conn("1", 0)}}

InitAlias ==
    /\ wf \in OpGraphs
    /\ other \in AliasOthers
    /\ diffs = <<>>
    /\ last = Call("new", "", "ok")

\* a query of wf that leaves a reference with the caller
Query(op, id, held) ==
    /\ last' = AliasCall(op, id, held)
    /\ UNCHANGED <<wf, other, diffs>>

AliasGetInput ==
    /\ Idle
    /\ \E nodeId \in NodeIds(wf), name \in Names :
        LET value == getInput(wf, nodeId, name)
        IN  Query("getInput", nodeId,
                  IF isNodeConnection(value) THEN {Held({Cell("wf", nodeId, name)}, value)}
                  ELSE {})

AliasGetInputs ==
    /\ Idle
    /\ \E nodeId \in NodeIds(wf) :
        Query("getInputs", nodeId, HeldOf("wf", nodeId, getInputs(wf, nodeId).entries, TRUE))

AliasGetNode ==
    /\ Idle
    /\ \E nodeId \in NodeIds(wf) :
        Query("getNode", nodeId, HeldOf("wf", nodeId, getNode(wf, nodeId).inputs, FALSE))

\* getNodes and toJson
AliasToJson ==
    /\ Idle
    /\ \E op \in {"getNodes", "toJson"} : Query(op, "", HeldCopies(toJson(wf)))

AliasFindNodesByType ==
    /\ Idle
    /\ \E classType \in ClassTypes :
        LET found == findNodesByType(wf, classType)
        IN  Query("findNodesByType", classType,
                  HeldCopies([k \in DOMAIN found |-> found[k].node]))

\* the fields of an edge are strings and numbers
AliasGetEdges ==
    /\ Idle
    /\ Query("getEdges", "",
             {Held({}, Conn(getEdges(wf)[k].sourceNodeId, getEdges(wf)[k].sourcePort)) :
                 k \in DOMAIN getEdges(wf)})

\* wf.getStructuralDiff(other) where each workflow has one node
AliasDiff ==
    /\ Idle
    /\ Len(wf) = 1
    /\ diffs' = getStructuralDiff(wf, other)
    /\ last' = AliasCall("getStructuralDiff", "wf,other",
                         HeldOfDiffs(diffs', wf[1], other[1]))
    /\ UNCHANGED <<wf, other>>

\* setInput with a Connection array of the caller
AliasSetInput ==
    /\ Idle
    /\ \E nodeId \in NodeIds(wf), name \in Names, value \in Conns :
        /\ wf' = setInput(wf, nodeId, name, value)
        /\ last' = AliasCall("setInput", nodeId, {Held({Cell("wf", nodeId, name)}, value)})
        /\ UNCHANGED <<other, diffs>>

\* addNode with an inputs object of the caller
AliasAddNode ==
    /\ Idle
    /\ \E classType \in ClassTypes, inputs \in InputArgs, nodeId \in Ids \ NodeIds(wf) :
        /\ wf' = addNode(wf, classType, inputs, nodeId)
        /\ last' = AliasCall("addNode", nodeId, HeldOf("wf", nodeId, inputs, TRUE))
        /\ UNCHANGED <<other, diffs>>

\* updateInputs with an inputs object of the caller
AliasUpdateInputs ==
    /\ Idle
    /\ \E nodeId \in NodeIds(wf), inputs \in InputArgs :
        /\ wf' = updateInputs(wf, nodeId, inputs)
        /\ last' = AliasCall("updateInputs", nodeId, HeldOf("wf", nodeId, inputs, TRUE))
        /\ UNCHANGED <<other, diffs>>

\* fromJson with an object of the caller that has the content of wf; the
\* workflow it returns is other
AliasFromJson ==
    /\ Idle
    /\ isComfyWorkflowJson(wf)
    /\ other' = JsonParse(StringifyNodes(wf))
    /\ last' = AliasCall("fromJson", "", HeldCopies(wf))
    /\ UNCHANGED <<wf, diffs>>

\* the caller assigns array[0] and array[1] of an array it holds
CallerWrite ==
    /\ last.op \notin {"new", "callerWrite"}
    /\ \E h \in last.held, value \in Conns :
        /\ value # h.value
        /\ wf' = WriteCells(wf, "wf", h.cells, value)
        /\ other' = WriteCells(other, "other", h.cells, value)
        /\ last' = [op |-> "callerWrite", id |-> "", outcome |-> "ok", held |-> {},
                    from |-> last.op]
        /\ UNCHANGED diffs

NextAlias ==
    \/ AliasGetInput \/ AliasGetInputs \/ AliasGetNode \/ AliasToJson
    \/ AliasFindNodesByType \/ AliasGetEdges \/ AliasDiff
    \/ AliasSetInput \/ AliasAddNode \/ AliasUpdateInputs \/ AliasFromJson
    \/ CallerWrite

SpecAlias == InitAlias /\ [][NextAlias]_vars

----------------------------------------------------------------------------
(* A workflow, the same node map built in another order, and a third workflow *)

OrderIds == {"x", "y"}
OrderValues == {Num(1), Conn("x", 0)}
OrderMaps == {m \in InputMaps : \A i \in DOMAIN m : m[i].value \in OrderValues}

RECURSIVE OrderGraphsOver(_)
\* the workflows of at most k nodes with custom ids, each built by k calls of
\* addNode: the nodes are listed in the order of the calls
OrderGraphsOver(k) ==
    IF k = 0 THEN {<<>>}
    ELSE LET smaller == OrderGraphsOver(k - 1)
             extend(g) ==
                 {addNode(g, c, m, id) :
                     id \in OrderIds \ NodeIds(g), c \in ClassTypes,
                     m \in {im \in OrderMaps : SumLen(g) + Len(im) <= MaxInputs}}
         IN  smaller \cup UNION {extend(g) : g \in smaller}

OrderGraphs == OrderGraphsOver(MaxNodes)

\* the workflows with the node map of `nodes`, built by addNode in the given or
\* in the opposite order of the nodes, each node with its inputs in the given
\* or in the opposite order
Reorderings(nodes) ==
    UNION {LET built == [i \in DOMAIN nodes |->
                            IF flip[i]
                            THEN [nodes[i] EXCEPT !.inputs = Reverse(@)]
                            ELSE nodes[i]]
           IN  {InsertAll(<<>>, built), InsertAll(<<>>, Reverse(built))} :
           flip \in [DOMAIN nodes -> BOOLEAN]}

InitOrder ==
    /\ wf \in OrderGraphs
    /\ other \in OrderGraphs
    /\ diffs = <<>>
    /\ last = Call("new", "", "ok")

\* isStructurallyEquivalentTo between other and both wf and a reordering of wf,
\* each as the receiver and as the argument
CompareReordered ==
    /\ Idle
    /\ \E reordered \in Reorderings(wf) :
          last' = [op |-> "isStructurallyEquivalentTo", id |-> "", outcome |-> "ok",
                   reordered |-> reordered,
                   result |->
                       [given |-> isStructurallyEquivalentTo(wf, other),
                        reordered |-> isStructurallyEquivalentTo(reordered, other),
                        givenArg |-> isStructurallyEquivalentTo(other, wf),
                        reorderedArg |-> isStructurallyEquivalentTo(other, reordered)]]
    /\ UNCHANGED <<wf, other, diffs>>

NextOrder == CompareReordered

SpecOrder == InitOrder /\ [][NextOrder]_vars

----------------------------------------------------------------------------
(* The validators *)

ValidationResult(valid, errors, warnings) ==
    [valid |-> valid, errors |-> errors, warnings |-> warnings]

\* the inputs of a node that hold a connection
ConnectionsOf(node) == SelectSeq(node.inputs, LAMBDA e : isNodeConnection(e.value))

\* referencedNodeIds that collects the sources only
ReferencedSourcesOnly(json) ==
    UNION {{ConnectionsOf(json[i])[k].value.s : k \in DOMAIN ConnectionsOf(json[i])} :
              i \in DOMAIN json}

\* referencedNodeIds after the first loop of validateConnections
ReferencedNodeIds(json) ==
    UNION {UNION {{ConnectionsOf(json[i])[k].value.s, json[i].id} :
                     k \in DOMAIN ConnectionsOf(json[i])} :
              i \in DOMAIN json}

\* the first loop of validateConnections stopping at the first error of a node
ConnectionErrorsFirstPerNode(json) ==
    Flatten([i \in DOMAIN json |->
        LET dangling == SelectSeq(ConnectionsOf(json[i]),
                                  LAMBDA e : e.value.s \notin NodeIds(json))
        IN  IF dangling = <<>> THEN <<>>
            ELSE <<[nodeId |-> json[i].id, inputName |-> dangling[1].name,
                    message |-> "Node \"" \o json[i].id \o "\" references non-existent node \""
                                \o dangling[1].value.s \o "\" in input \""
                                \o dangling[1].name \o "\"",
                    severity |-> "error"]>>])

\* errors after the first loop of validateConnections
ConnectionErrors(json) ==
    Flatten([i \in DOMAIN json |->
        LET dangling == SelectSeq(ConnectionsOf(json[i]),
                                  LAMBDA e : e.value.s \notin NodeIds(json))
        IN  [k \in DOMAIN dangling |->
                [nodeId |-> json[i].id, inputName |-> dangling[k].name,
                 message |-> "Node \"" \o json[i].id \o "\" references non-existent node \""
                             \o dangling[k].value.s \o "\" in input \""
                             \o dangling[k].name \o "\"",
                 severity |-> "error"]]])

\* warnings after the second loop of validateConnections
IsolationWarnings(json) ==
    LET isolated == SelectSeq(json, LAMBDA n : n.id \notin ReferencedNodeIds(json))
    IN  [k \in DOMAIN isolated |->
            [nodeId |-> isolated[k].id,
             message |-> "Node \"" \o isolated[k].id
                         \o "\" is isolated (no incoming or outgoing connections)",
             severity |-> "warning"]]

validateConnections(json) ==
    ValidationResult(ConnectionErrors(json) = <<>>, ConnectionErrors(json),
                     IsolationWarnings(json))

\* a raw value is an object, given by its entries, or null or a string
isWorkflowShape(raw) == raw.kind = "object" /\ isComfyWorkflowJson(raw.entries)

validateWorkflowStructure(raw) ==
    IF ~isWorkflowShape(raw)
    THEN ValidationResult(FALSE,
             <<[message |-> "Invalid workflow structure: not a valid ComfyWorkflowJson",
                severity |-> "error"]>>, <<>>)
    ELSE ValidationResult(TRUE, <<>>, <<>>)

\* validateWorkflow that returns after the structure check
validateWorkflowStructureOnly(raw) == validateWorkflowStructure(raw)

validateWorkflow(raw) ==
    LET structureResult == validateWorkflowStructure(raw)
    IN  IF ~structureResult.valid THEN structureResult
        ELSE LET connectionResult == validateConnections(raw.entries)
             IN  ValidationResult(connectionResult.valid,
                                  structureResult.errors \o connectionResult.errors,
                                  structureResult.warnings \o connectionResult.warnings)

\* the raw values handed to validateWorkflow: the export of the workflow, the
\* export with the class_type of its first node missing, null and a string
RawsOf(nodes) ==
    {Obj(nodes), NULL, Str("1")}
    \cup (IF nodes = <<>> THEN {} ELSE {Obj(WithoutClassType(nodes))})

InitValidate ==
    /\ wf \in OpGraphs
    /\ other = <<>>
    /\ diffs = <<>>
    /\ last = Call("new", "", "ok")

InvokeValidateConnections ==
    /\ Idle
    /\ Invoke("validateConnections", [id |-> ""], wf, validateConnections(wf), "ok")

InvokeValidateWorkflowStructure ==
    /\ Idle
    /\ \E raw \in RawsOf(wf) :
        Invoke("validateWorkflowStructure", [id |-> "", raw |-> raw], wf,
               validateWorkflowStructure(raw), "ok")

InvokeValidateWorkflow ==
    /\ Idle
    /\ \E raw \in RawsOf(wf) :
        Invoke("validateWorkflow", [id |-> "", raw |-> raw], wf,
               validateWorkflow(raw), "ok")

NextValidate ==
    InvokeValidateConnections \/ InvokeValidateWorkflowStructure \/ InvokeValidateWorkflow

SpecValidate == InitValidate /\ [][NextValidate]_vars

----------------------------------------------------------------------------
(* Properties of the equivalence verdict *)

\* the one-to-one maps of S onto T
Bijections(S, T) ==
    {f \in [S -> T] : /\ \A a, b \in S : f[a] = f[b] => a = b
                      /\ {f[a] : a \in S} = T}

\* the class type a connection leads to in its own workflow
SourceTag(nodes, connection) ==
    IF HasNode(nodes, connection.s) THEN NodeOf(nodes, connection.s).class_type
    ELSE "UNKNOWN"

\* node n of A and node m of B agree up to the renaming f of A's node ids: a
\* connection of n to s is a connection of m to f[s], a dangling one is dangling
SameUpToRenaming(f, A, n, B, m) ==
    /\ n.class_type = m.class_type
    /\ InputNamesOf(n.inputs) = InputNamesOf(m.inputs)
    /\ \A x \in InputNamesOf(n.inputs) :
          LET va == InputOf(n.inputs, x)
              vb == InputOf(m.inputs, x)
          IN  IF isNodeConnection(va)
              THEN /\ isNodeConnection(vb)
                   /\ vb.n = va.n
                   /\ IF HasNode(A, va.s) THEN vb.s = f[va.s] ELSE ~HasNode(B, vb.s)
              ELSE vb = va

\* node n of A and node m of B agree in class type, input names, literals, and
\* in the port and the source class type of every connection
SameShape(A, n, B, m) ==
    /\ n.class_type = m.class_type
    /\ InputNamesOf(n.inputs) = InputNamesOf(m.inputs)
    /\ \A x \in InputNamesOf(n.inputs) :
          LET va == InputOf(n.inputs, x)
              vb == InputOf(m.inputs, x)
          IN  IF isNodeConnection(va)
              THEN /\ isNodeConnection(vb)
                   /\ vb.n = va.n
                   /\ SourceTag(A, va) = SourceTag(B, vb)
              ELSE vb = va

C3_Reflexive == Compared("wf", "wf") => diffs = <<>>

\* a workflow of two different nodes of one class type, one with a dangling
\* connection, was compared against itself
C3_SelfComparedWitness ==
    /\ Compared("wf", "wf")
    /\ Len(wf) = 2
    /\ wf[1].class_type = wf[2].class_type
    /\ wf[1].inputs # wf[2].inputs
    /\ \E i \in DOMAIN wf : \E k \in DOMAIN wf[i].inputs :
          /\ isNodeConnection(wf[i].inputs[k].value)
          /\ ~HasNode(wf, wf[i].inputs[k].value.s)

\* C4: the diff of wf against other is empty exactly when the diff of other
\* against wf is, also when the greedy matching runs over two nodes a side.
C4_VerdictSymmetric ==
    Compared("wf", "other")
    => ((diffs = <<>>) <=> (getStructuralDiff(other, wf) = <<>>))

\* two workflows of three nodes each were compared, and the diff reports an
\* input that only the first one has
C4_ExtraSideWitness ==
    /\ Compared("wf", "other")
    /\ Len(wf) = 3 /\ Len(other) = 3
    /\ \E d \in DOMAIN diffs :
          diffs[d].expected = UNDEFINED /\ diffs[d].actual # UNDEFINED

----------------------------------------------------------------------------
(* Properties of the diff entries *)

CountOf(nodes, classType) ==
    Cardinality({i \in DOMAIN nodes : nodes[i].class_type = classType})

NodesOfClass(nodes, classType) == SelectSeq(nodes, LAMBDA n : n.class_type = classType)

EntriesOfClass(ds, classType) == SelectSeq(ds, LAMBDA d : d.classType = classType)

EntriesOfInput(ds, classType, inputName) ==
    SelectSeq(ds, LAMBDA d : d.classType = classType /\ d.inputName = inputName)

CountMismatches(ds) == SelectSeq(ds, LAMBDA d : d.type = "class_type_count_mismatch")

\* the diff has exactly one count mismatch, and it is for classType
OneCountMismatch(ds, classType) ==
    Len(CountMismatches(ds)) = 1 /\ CountMismatches(ds)[1].classType = classType

\* C5: a class type whose node counts differ has exactly one entry, a
\* class_type_count_mismatch with expected the other's count and actual this
\* one's, and so no input or connection entry; and one more node of class T on
\* either side of two equivalent workflows gives a diff with exactly one count
\* mismatch, which is for T.
C5_CountMismatch ==
    Compared("wf", "other")
    => /\ \A c \in ClassTypes :
             CountOf(wf, c) # CountOf(other, c)
             => LET es == EntriesOfClass(diffs, c)
                IN  /\ Len(es) = 1
                    /\ es[1].type = "class_type_count_mismatch"
                    /\ es[1].expected = Num(CountOf(other, c))
                    /\ es[1].actual = Num(CountOf(wf, c))
       /\ diffs = <<>>
          => \A T \in ClassTypes, id \in Ids, inputs \in InputArgs :
                /\ ~HasNode(wf, id)
                   => OneCountMismatch(
                          getStructuralDiff(addNode(wf, T, inputs, id), other), T)
                /\ ~HasNode(other, id)
                   => OneCountMismatch(
                          getStructuralDiff(wf, addNode(other, T, inputs, id)), T)

\* a class with two nodes here and one there was compared, the nodes holding
\* inputs that differ
C5_CountsDifferWitness ==
    /\ Compared("wf", "other")
    /\ \E c \in ClassTypes :
          /\ CountOf(wf, c) = 2 /\ CountOf(other, c) = 1
          /\ NodesOfClass(wf, c)[1].inputs # NodesOfClass(other, c)[1].inputs
          /\ NodesOfClass(wf, c)[2].inputs # NodesOfClass(other, c)[1].inputs

\* every class type of the workflow has one node
SingleInstance(nodes) == \A c \in ClassTypes : CountOf(nodes, c) <= 1

\* A and B are the same but for the literal value of input k of node i
DifferOnlyIn(A, B, i, k) ==
    /\ Len(A) = Len(B)
    /\ \A j \in DOMAIN A :
          /\ A[j].id = B[j].id
          /\ A[j].class_type = B[j].class_type
          /\ KeysOf(A[j].inputs) = KeysOf(B[j].inputs)
          /\ \A l \in DOMAIN A[j].inputs :
                IF j = i /\ l = k
                THEN /\ A[j].inputs[l].value # B[j].inputs[l].value
                     /\ ~isNodeConnection(A[j].inputs[l].value)
                     /\ ~isNodeConnection(B[j].inputs[l].value)
                ELSE A[j].inputs[l].value = B[j].inputs[l].value

\* C6: for two workflows with one node per class type that differ only in the
\* literal value of one input x of one node, the diff is one entry: an
\* input_mismatch for x, expected the other's value and actual this one's.
C6_OneLiteralDiffers ==
    (Compared("wf", "other") /\ SingleInstance(wf) /\ SingleInstance(other))
    => \A i \in DOMAIN wf : \A k \in DOMAIN wf[i].inputs :
          DifferOnlyIn(wf, other, i, k)
          => /\ Len(diffs) = 1
             /\ diffs[1].type = "input_mismatch"
             /\ diffs[1].inputName = wf[i].inputs[k].name
             /\ diffs[1].expected = other[i].inputs[k].value
             /\ diffs[1].actual = wf[i].inputs[k].value

\* two workflows of two nodes of different class types were compared that
\* differ in one literal only
C6_OneLiteralWitness ==
    /\ Compared("wf", "other")
    /\ SingleInstance(wf) /\ SingleInstance(other)
    /\ Len(wf) = 2
    /\ \E i \in DOMAIN wf : \E k \in DOMAIN wf[i].inputs : DifferOnlyIn(wf, other, i, k)

RECURSIVE PartnerOf(_, _, _)
\* the node of B that the i-th node of A is matched to, 0 if none: the first
\* node with an equal hash that no earlier node of A was matched to
PartnerOf(hashesA, hashesB, i) ==
    LET taken == {PartnerOf(hashesA, hashesB, j) : j \in 1..(i - 1)}
        free == {j \in DOMAIN hashesB : hashesB[j] = hashesA[i] /\ j \notin taken}
    IN  IF free = {} THEN 0 ELSE Min(free)

\* the first unmatched node of each side, as a set of at most one pair
FirstUnmatched(A, B, nodesA, nodesB) ==
    LET hashesA == [i \in DOMAIN nodesA |-> hashNodeInputs(A, nodesA[i])]
        hashesB == [i \in DOMAIN nodesB |-> hashNodeInputs(B, nodesB[i])]
        unmatchedA == {i \in DOMAIN nodesA : PartnerOf(hashesA, hashesB, i) = 0}
        unmatchedB == DOMAIN nodesB
                      \ {PartnerOf(hashesA, hashesB, i) : i \in DOMAIN nodesA}
    IN  IF unmatchedA = {} \/ unmatchedB = {} THEN {}
        ELSE {<<nodesA[Min(unmatchedA)], nodesB[Min(unmatchedB)]>>}

\* the node pairs of a class type whose inputs a diff of A against B compares
ComparedPairs(A, B, classType) ==
    LET nodesA == NodesOfClass(A, classType)
        nodesB == NodesOfClass(B, classType)
    IN  IF Len(nodesA) # Len(nodesB) \/ Len(nodesA) = 0 THEN {}
        ELSE IF Len(nodesA) = 1 THEN {<<nodesA[1], nodesB[1]>>}
        ELSE FirstUnmatched(A, B, nodesA, nodesB)

\* the string a connection is compared by: its source's class type and its port
TagAndPort(nodes, connection) ==
    SourceTag(nodes, connection) \o ":" \o ToString(connection.n)

DetailsOf(x, text) == "Input \"" \o x \o "\": " \o text

\* C8: for a compared node pair and an input name, exactly one case holds.
\* Both values are connections: at most one entry, a connection_mismatch.
\* One is a connection and the other a literal or absent: one input_mismatch
\* with the type-mismatch text.  Neither is a connection and they are equal:
\* no entry.  Neither is a connection and they differ: one input_mismatch,
\* with the missing text when only the other workflow has the input, the
\* extra text when only this one has it, the value-differs text otherwise.
C8_InputCases ==
    Compared("wf", "other")
    => \A c \in ClassTypes : \A pair \in ComparedPairs(wf, other, c) : \A x \in Names :
          LET va == InputOf(pair[1].inputs, x)
              vb == InputOf(pair[2].inputs, x)
              es == EntriesOfInput(diffs, c, x)
              one(text) == /\ Len(es) = 1
                           /\ es[1].type = "input_mismatch"
                           /\ es[1].details = DetailsOf(x, text)
          IN  IF isNodeConnection(va) /\ isNodeConnection(vb)
              THEN Len(es) <= 1 /\ \A e \in DOMAIN es : es[e].type = "connection_mismatch"
              ELSE IF isNodeConnection(va) \/ isNodeConnection(vb)
              THEN one("type mismatch - one is connection, other is value")
              ELSE IF va = vb
              THEN es = <<>>
              ELSE IF va = UNDEFINED
              THEN one("missing in this workflow")
              ELSE IF vb = UNDEFINED
              THEN one("extra in this workflow")
              ELSE one("expected " \o JsonStringify(vb) \o ", got " \o JsonStringify(va))

\* a pair was compared where one input is a connection here and absent there,
\* and another input is a literal there and absent here
C8_AbsentSidesWitness ==
    /\ Compared("wf", "other")
    /\ \E c \in ClassTypes : \E pair \in ComparedPairs(wf, other, c) :
          \E x \in Names, y \in Names :
              /\ isNodeConnection(InputOf(pair[1].inputs, x))
              /\ InputOf(pair[2].inputs, x) = UNDEFINED
              /\ InputOf(pair[1].inputs, y) = UNDEFINED
              /\ InputOf(pair[2].inputs, y) \in Literals

\* the entries of a node-input-diff, as getStructuralDiff lists them for a class
Tagged(ds, classType) == [i \in DOMAIN ds |-> [ds[i] EXCEPT !.classType = classType]]

\* C9: for a class type with the same count of two or more nodes on both
\* sides, the nodes of wf are matched in order to the first node of other not
\* yet matched that has an equal hash; the entries of the class are the
\* node-input-diff of the first unmatched node of wf and the first unmatched
\* node of other, and nothing else, also when more nodes are unmatched.
C9_FirstUnmatchedPair ==
    Compared("wf", "other")
    => \A c \in ClassTypes :
          LET nodesA == NodesOfClass(wf, c)
              nodesB == NodesOfClass(other, c)
              pairs == FirstUnmatched(wf, other, nodesA, nodesB)
          IN  (Len(nodesA) = Len(nodesB) /\ Len(nodesA) >= 2)
              => IF pairs = {}
                 THEN EntriesOfClass(diffs, c) = <<>>
                 ELSE \A pair \in pairs :
                         EntriesOfClass(diffs, c)
                         = Tagged(compareNodeInputs(wf, pair[1], pair[2], other), c)

\* three nodes a side were compared: the first node of wf was matched, to
\* the second node of other, and the two unmatched nodes of each side differ
\* from one another
C9_TwoUnmatchedWitness ==
    /\ Compared("wf", "other")
    /\ Len(wf) = 3 /\ Len(other) = 3
    /\ hashNodeInputs(wf, wf[1]) = hashNodeInputs(other, other[2])
    /\ \A i \in {2, 3} : \A j \in {1, 3} :
          hashNodeInputs(wf, wf[i]) # hashNodeInputs(other, other[j])
    /\ hashNodeInputs(wf, wf[1]) # hashNodeInputs(other, other[1])
    /\ hashNodeInputs(wf, wf[2]) # hashNodeInputs(wf, wf[3])
    /\ hashNodeInputs(other, other[1]) # hashNodeInputs(other, other[3])
    /\ diffs = Tagged(compareNodeInputs(wf, wf[2], other[1], other), "K")

\* the normalized input map of a node: each input name with the JSON encoding
\* of its literal, or with sourceClassType:port for a connection
NormalizedMap(nodes, node) ==
    {<<node.inputs[i].name,
       IF isNodeConnection(node.inputs[i].value)
       THEN TagAndPort(nodes, node.inputs[i].value)
       ELSE JsonStringify(node.inputs[i].value)>> : i \in DOMAIN node.inputs}

\* the nodes of A and of B have the same normalized input maps, counted with
\* their multiplicities
SameMultiset(A, B) ==
    /\ Len(A) = Len(B)
    /\ \E f \in [DOMAIN A -> DOMAIN B] :
          /\ \A i \in DOMAIN A, j \in DOMAIN A : f[i] = f[j] => i = j
          /\ \A i \in DOMAIN A : NormalizedMap(A, A[i]) = NormalizedMap(B, B[f[i]])

\* C25: for a class type with the same count k >= 2 in both workflows, the diff
\* has no entry for the class exactly when the two multisets of normalized
\* input maps are equal: nodes of equal content hash have equal normalized maps,
\* and a pair left unmatched and compared yields at least one entry.
C25_HashMatching ==
    Compared("wf", "other") /\ Len(wf) >= 2
    => /\ diffs = <<>> <=> SameMultiset(wf, other)
       /\ \A i \in DOMAIN wf, j \in DOMAIN other :
             hashNodeInputs(wf, wf[i]) = hashNodeInputs(other, other[j])
             => NormalizedMap(wf, wf[i]) = NormalizedMap(other, other[j])
       /\ FirstUnmatched(wf, other, wf, other) # {} => diffs # <<>>

\* the class types that have a node in A and none in B
OnlyIn(A, B) == {c \in AnyClassTypes : NodesOfClass(A, c) # <<>> /\ NodesOfClass(B, c) = <<>>}

\* C28: no entry of a diff has the type missing_node_type or extra_node_type; a
\* class type with nodes in one workflow only is reported by exactly one entry,
\* a class_type_count_mismatch with expected 0 or actual 0; every entry carries
\* the class type it belongs to: the one whose counts differ, or the one of the
\* compared pair of nodes whose input it reports.
C28_EntryTypesAndClass ==
    Compared("wf", "other")
    => /\ last.outcome = "ok"
       /\ \A i \in DOMAIN diffs :
             /\ diffs[i].type \in {"class_type_count_mismatch", "input_mismatch",
                                   "connection_mismatch"}
             /\ diffs[i].classType \in AnyClassTypes
             /\ IF diffs[i].type = "class_type_count_mismatch"
                THEN Len(NodesOfClass(wf, diffs[i].classType))
                     # Len(NodesOfClass(other, diffs[i].classType))
                ELSE \E pair \in ComparedPairs(wf, other, diffs[i].classType) :
                        diffs[i].inputName \in InputNamesOf(pair[1].inputs)
                                               \cup InputNamesOf(pair[2].inputs)
       /\ \A c \in OnlyIn(wf, other) :
             /\ Len(EntriesOfClass(diffs, c)) = 1
             /\ EntriesOfClass(diffs, c)[1].type = "class_type_count_mismatch"
             /\ EntriesOfClass(diffs, c)[1].expected = Num(0)
             /\ EntriesOfClass(diffs, c)[1].actual = Num(Len(NodesOfClass(wf, c)))
       /\ \A c \in OnlyIn(other, wf) :
             /\ Len(EntriesOfClass(diffs, c)) = 1
             /\ EntriesOfClass(diffs, c)[1].type = "class_type_count_mismatch"
             /\ EntriesOfClass(diffs, c)[1].expected = Num(Len(NodesOfClass(other, c)))
             /\ EntriesOfClass(diffs, c)[1].actual = Num(0)

\* C29: the verdict of isStructurallyEquivalentTo does not depend on the order
\* in which the nodes were added nor on the order in which the inputs of a node
\* were set: two workflows with the same node map give the same verdict against
\* any third workflow, as the receiver and as the argument, also with several
\* nodes of one class type.
C29_OrderIndependent ==
    last.op = "isStructurallyEquivalentTo"
    => /\ last.result.reordered = last.result.given
       /\ last.result.reorderedArg = last.result.givenArg

\* two nodes of one class type were listed in the opposite order, one of them
\* with its two inputs in the opposite order, and compared equivalent to a
\* third workflow
C29_ReorderedEquivalentWitness ==
    /\ last.op = "isStructurallyEquivalentTo"
    /\ Len(wf) = 2
    /\ wf[1].class_type = wf[2].class_type
    /\ last.reordered[1].id = wf[2].id
    /\ \E i \in DOMAIN wf :
          /\ Len(wf[i].inputs) = 2
          /\ KeysOf(NodeOf(last.reordered, wf[i].id).inputs) # KeysOf(wf[i].inputs)
    /\ other # wf /\ other # last.reordered
    /\ last.result.given /\ last.result.givenArg

----------------------------------------------------------------------------
(* Properties of the node and edge operations (Spec) *)

\* the state of the inputs of the nodes other than `id` after `id` was removed:
\* an edge leaving `id` is gone, every other input is as it was
RemovedCleanly(before, after, id) ==
    /\ ~HasNode(after, id)
    /\ NodeIds(after) = NodeIds(before) \ {id}
    /\ \A k \in NodeIds(after) :
          /\ NodeOf(after, k).class_type = NodeOf(before, k).class_type
          /\ \A x \in Names :
                LET was == InputOf(NodeOf(before, k).inputs, x)
                    now == InputOf(NodeOf(after, k).inputs, x)
                IN  IF isNodeConnection(was) /\ was.s = id
                    THEN now = UNDEFINED
                    ELSE now = was
    /\ \A e \in DOMAIN getEdges(after) :
          getEdges(after)[e].sourceNodeId # id /\ getEdges(after)[e].targetNodeId # id

\* C10: a removeNode(id) of a present node leaves id absent, keeps every other
\* node and its class type, leaves no connection whose source is id (getEdges
\* lists no edge from or to id), and leaves every other input as it was.
C10_RemoveNodeDetaches ==
    [][(last'.op = "removeNode" /\ last'.outcome = "ok")
          => RemovedCleanly(wf, wf', last'.id)]_vars

\* a node was removed, and a node that holds a connection to a third node and
\* a literal is left
C10_RemovedWitness ==
    /\ last.op = "removeNode" /\ last.outcome = "ok"
    /\ \E i \in DOMAIN wf :
          /\ \E k \in DOMAIN wf[i].inputs : isNodeConnection(wf[i].inputs[k].value)
          /\ \E k \in DOMAIN wf[i].inputs : ~isNodeConnection(wf[i].inputs[k].value)

\* C11: after any sequence of addNode, removeNode, addEdge, removeEdge,
\* setInput, updateInputs and clearInput from the empty workflow, every input
\* that is a connection names a source node that is present.
C11_ReferentialIntegrity ==
    \A i \in DOMAIN wf : \A k \in DOMAIN wf[i].inputs :
        isNodeConnection(wf[i].inputs[k].value)
        => HasNode(wf, wf[i].inputs[k].value.s)

\* C24: getNodeCount grows by one on every addNode that succeeds, shrinks by
\* one on removeNode of a present id, is unchanged by every other operation and
\* by every call that fails, and equals the number of keys of getNodes().
C24_NodeCount ==
    /\ [][getNodeCount(wf') - getNodeCount(wf) =
             (IF last'.op = "addNode" /\ last'.outcome = "ok" THEN 1
              ELSE IF last'.op = "removeNode" /\ last'.outcome = "ok" THEN -1
              ELSE 0)]_vars
    /\ [](getNodeCount(wf) = Cardinality(NodeIds(getNodes(wf))))

\* addNode failed on a workflow of two nodes, one of them with a custom id
C24_FailedAddWitness ==
    /\ last.op = "addNode" /\ last.outcome = "threw"
    /\ getNodeCount(wf) = 2
    /\ HasNode(wf, "x")

\* C26: from the empty workflow, after any sequence of addNode with literal
\* inputs, addEdge, removeEdge, removeNode, clearInput and setInput and
\* updateInputs with literal values, every connection names a present node:
\* validateConnections(toJson()) reports no error.
C26_LiteralCallsKeepIntegrity ==
    validateConnections(toJson(wf)).errors = <<>>

\* C27: after any sequence of addNode, addEdge, removeEdge and removeNode, a
\* node just created by addNode with a generated id has no outgoing edge, also
\* when the id is the one of a removed node.
C27_NewNodeHasNoOutgoingEdge ==
    last.op = "addNode" /\ last.outcome = "ok" /\ last.generated
    => getEdgesFrom(wf, last.id) = <<>>

----------------------------------------------------------------------------
(* Properties of single calls *)

\* the integers that the keys of a workflow start with
ParsedKeys(nodes) ==
    {n \in 0..9 : \E k \in NodeIds(nodes) : k = ToString(n) \/ k = ToString(n) \o "x"}

\* one more than the largest parsed key, 1 when no key parses
NextKey(nodes) ==
    ToString((IF ParsedKeys(nodes) = {} THEN 0 ELSE Max(ParsedKeys(nodes))) + 1)

\* C15: addNode without an id returns the decimal string of m + 1, m the
\* largest integer parsed from the keys and 0 when none parses; the id is not
\* a key, so the call does not throw and adds the node under that id.
C15_AutoId ==
    [][(last'.op = "addNode" /\ last'.args.id = ABSENT)
          => /\ last'.outcome = "ok"
             /\ last'.result = Str(NextKey(wf))
             /\ ~HasNode(wf, NextKey(wf))
             /\ NodeIds(wf') = NodeIds(wf) \cup {NextKey(wf)}
             /\ NodeOf(wf', NextKey(wf)).class_type = last'.args.classType]_vars

\* an id was generated for a workflow that mixes a numeric id, a custom id
\* without digits and a custom id that starts with the largest integer
C15_MixedIdsWitness ==
    /\ last.op = "addNode" /\ last.args.id = ABSENT /\ last.outcome = "ok"
    /\ {"1", "x", "3x"} \subseteq NodeIds(wf)
    /\ last.result = Str("4")

\* the call that was made raised and left the workflow as it was
Rejected(before, after, call) == call.outcome = "threw" /\ after = before

\* C16: addNode with an explicit id that exists, addEdge with an absent source
\* or an absent target, and setInput and updateInputs on an absent node each
\* raise an error and leave the workflow exactly as it was.
C16_FailingCalls ==
    [][/\ (last'.op = "addNode" /\ HasNode(wf, last'.args.id))
              => Rejected(wf, wf', last')
       /\ (last'.op = "addEdge"
              /\ (~HasNode(wf, last'.args.source) \/ ~HasNode(wf, last'.args.id)))
              => Rejected(wf, wf', last')
       /\ (last'.op \in {"setInput", "updateInputs"} /\ ~HasNode(wf, last'.args.id))
              => Rejected(wf, wf', last')]_vars

\* the nodes, their order and class types are the same, and so is every input
\* but the input name of node id
SameButInput(before, after, id, name) ==
    /\ Len(after) = Len(before)
    /\ \A i \in DOMAIN before :
          /\ after[i].id = before[i].id
          /\ after[i].class_type = before[i].class_type
          /\ \A x \in Names :
                (before[i].id # id \/ x # name)
                   => InputOf(after[i].inputs, x) = InputOf(before[i].inputs, x)
          /\ InputNamesOf(after[i].inputs) \ {name} = InputNamesOf(before[i].inputs) \ {name}
          /\ before[i].id # id => after[i].inputs = before[i].inputs

\* C17: addEdge with both nodes present sets the input of the target to the
\* connection (source, port), replacing what was there, and changes nothing else.
C17_AddEdgeSets ==
    [][(last'.op = "addEdge" /\ HasNode(wf, last'.args.source) /\ HasNode(wf, last'.args.id))
          => /\ last'.outcome = "ok"
             /\ InputOf(NodeOf(wf', last'.args.id).inputs, last'.args.name)
                   = Conn(last'.args.source, last'.args.port)
             /\ SameButInput(wf, wf', last'.args.id, last'.args.name)]_vars

\* addEdge replaced a literal of a node that holds another input
C17_ReplacedLiteralWitness ==
    /\ last.op = "addEdge" /\ last.outcome = "ok"
    /\ LET was == NodeOf(last.before, last.args.id).inputs
       IN  /\ InputOf(was, last.args.name) \in Literals
           /\ Len(was) = 2
    /\ last.args.port = 1

\* C18: removeEdge deletes the input exactly when the target is present and the
\* input holds a connection; otherwise it raises nothing and changes nothing.
C18_RemoveEdge ==
    [][last'.op = "removeEdge"
          => /\ last'.outcome = "ok"
             /\ IF HasNode(wf, last'.args.id)
                   /\ isNodeConnection(InputOf(NodeOf(wf, last'.args.id).inputs, last'.args.name))
                THEN /\ last'.args.name \notin InputNamesOf(NodeOf(wf', last'.args.id).inputs)
                     /\ SameButInput(wf, wf', last'.args.id, last'.args.name)
                ELSE wf' = wf]_vars

\* C19: removeNode of an absent id and clearInput on an absent node or an
\* absent input raise nothing and change nothing; getNode, getInput and
\* getInputs on an absent node return undefined.
C19_AbsentNoOps ==
    [][/\ (last'.op = "removeNode" /\ ~HasNode(wf, last'.args.id))
              => last'.outcome = "ok" /\ wf' = wf
       /\ (last'.op = "clearInput"
              /\ (~HasNode(wf, last'.args.id)
                    \/ last'.args.name \notin InputNamesOf(NodeOf(wf, last'.args.id).inputs)))
              => last'.outcome = "ok" /\ wf' = wf
       /\ (last'.op \in {"getNode", "getInput", "getInputs"} /\ ~HasNode(wf, last'.args.id))
              => last'.outcome = "ok" /\ wf' = wf /\ last'.result = UNDEFINED]_vars

\* one edge (s, p, t, n) for every node t and input n that holds the connection (s, p)
EdgeSet(nodes) ==
    {[sourceNodeId |-> nodes[i].inputs[k].value.s,
      sourcePort |-> nodes[i].inputs[k].value.n,
      targetNodeId |-> nodes[i].id,
      targetInputName |-> nodes[i].inputs[k].name] :
        <<i, k>> \in {<<i, k>> \in (DOMAIN nodes) \X (1..MaxInputs) :
                         /\ k \in DOMAIN nodes[i].inputs
                         /\ nodes[i].inputs[k].value.kind = "conn"}}

\* the list holds each edge of the set once and nothing else, and no two of
\* its edges have the same target and input
ExactlyEdges(list, edges) ==
    /\ {list[i] : i \in DOMAIN list} = edges
    /\ Len(list) = Cardinality(edges)
    /\ \A i, j \in DOMAIN list :
          (list[i].targetNodeId = list[j].targetNodeId
             /\ list[i].targetInputName = list[j].targetInputName) => i = j

\* C20: getEdges holds exactly one edge per node and input whose value is a
\* connection and nothing else, no two edges share target and input;
\* getEdgesFrom(x) and getEdgesTo(x) are exactly the edges with source x and
\* with target x; hasConnection(s, t) holds iff some edge has source s and target t.
C20_EdgeQueries ==
    /\ last.op = "getEdges"
          => ExactlyEdges(last.result.v, EdgeSet(last.before))
    /\ last.op = "getEdgesFrom"
          => ExactlyEdges(last.result.v,
                          {e \in EdgeSet(last.before) : e.sourceNodeId = last.args.id})
    /\ last.op = "getEdgesTo"
          => ExactlyEdges(last.result.v,
                          {e \in EdgeSet(last.before) : e.targetNodeId = last.args.id})
    /\ last.op = "hasConnection"
          => last.result.v = (\E e \in EdgeSet(last.before) :
                                 /\ e.sourceNodeId = last.args.source
                                 /\ e.targetNodeId = last.args.id)
    /\ last.op \in {"getEdges", "getEdgesFrom", "getEdgesTo", "hasConnection"}
          => wf = last.before /\ last.outcome = "ok"

\* hasConnection was asked about two nodes joined by an edge in the opposite
\* direction only, in a workflow with two edges
C20_OppositeEdgeWitness ==
    /\ last.op = "hasConnection" /\ last.result.v = FALSE
    /\ Cardinality(EdgeSet(last.before)) = 2
    /\ \E e \in EdgeSet(last.before) :
          /\ e.sourceNodeId = last.args.id
          /\ e.targetNodeId = last.args.source

\* the entries of an object, whatever their order
EntrySet(entries) == {entries[k] : k \in DOMAIN entries}

\* a serialized graph as data: its nodes by id, with class tag, inputs and meta
AsData(nodes) ==
    {[id |-> nodes[i].id,
      class_type |-> nodes[i].class_type,
      inputs |-> EntrySet(nodes[i].inputs),
      hasMeta |-> "_meta" \in DOMAIN nodes[i],
      meta |-> IF "_meta" \in DOMAIN nodes[i]
               THEN {e \in EntrySet(nodes[i]._meta) : e.value # UNDEFINED} ELSE {}] :
        i \in DOMAIN nodes}

\* C14: for a workflow G built through the public operations,
\* fromJson(G.toJson()).toJson() equals G.toJson(), with the node ids, class
\* tags, inputs and meta of G; for a structurally valid serialized graph J,
\* given as an object or as a text, fromJson(J) is accepted and
\* fromJson(J).toJson() equals J.
C14_RoundTrip ==
    last.op = "fromJson"
       => /\ last.args.form = "export"
                => /\ last.outcome = "ok"
                   /\ toJson(other) = toJson(wf)
                   /\ AsData(toJson(other)) = AsData(wf)
                   /\ NodeIds(other) = NodeIds(wf)
          /\ (last.args.form = "object" /\ isComfyWorkflowJson(last.args.of))
                => /\ last.outcome = "ok"
                   /\ toJson(other) = last.args.of
          /\ (last.args.form = "text" /\ last.outcome = "ok")
                => AsData(toJson(other)) = AsData(last.args.of)
          /\ last.outcome = "threw"
                => \/ ~isComfyWorkflowJson(last.args.of)
                   \/ last.args.form = "text"

\* a workflow of two nodes with custom ids, a connection, a null input and a
\* meta title was exported and imported
C14_ExportedWitness ==
    /\ last.op = "fromJson" /\ last.args.form = "export" /\ last.outcome = "ok"
    /\ Len(wf) = 2 /\ wf[1].id = "y" /\ wf[2].id = "x"
    /\ wf[1].inputs = <<[name |-> "a", value |-> NULL]>>
    /\ wf[2].inputs = <<[name |-> "b", value |-> Num(1)], [name |-> "a", value |-> Conn("2", 0)]>>
    /\ "_meta" \in DOMAIN wf[2] /\ wf[2]._meta = <<[name |-> "title", value |-> Str("T")]>>
    /\ other = wf

----------------------------------------------------------------------------
(* Properties of the values that cross the interface *)

\* every query of a workflow is a function of its nodes, so a query changes
\* exactly when the nodes do
NodesUntouched == wf' = wf /\ other' = other

\* C12: no query returns a value that shares mutable structure with the
\* workflow: assigning into a value returned by getNode, getNodes,
\* findNodesByType, getInput, getInputs, getEdges, toJson, or into the
\* expected or actual value of a getStructuralDiff entry, changes no workflow.
C12_QueriesReturnCopies ==
    [][(last'.op = "callerWrite"
          /\ last'.from \in {"getNode", "getNodes", "findNodesByType", "getInput",
                             "getInputs", "getEdges", "toJson", "getStructuralDiff"})
          => NodesUntouched]_vars

\* C13: the values handed to fromJson, addNode, updateInputs and setInput are
\* copied on the way in: assigning into them after the call changes no workflow.
C13_ArgumentsAreCopied ==
    [][(last'.op = "callerWrite"
          /\ last'.from \in {"fromJson", "addNode", "updateInputs", "setInput"})
          => NodesUntouched]_vars

----------------------------------------------------------------------------
(* Properties of the validators *)

\* the nodes without a connection-valued input that no connection names as source
Isolated(nodes) ==
    {id \in NodeIds(nodes) :
        /\ \A e \in EdgeSet(nodes) : e.sourceNodeId # id
        /\ \A e \in EdgeSet(nodes) : e.targetNodeId # id}

\* the connections whose source is not a key of the graph
Dangling(nodes) == {e \in EdgeSet(nodes) : e.sourceNodeId \notin NodeIds(nodes)}

\* C21: validateConnections gives exactly one warning for each node with no
\* connection-valued input that is the source of no connection, none for a
\* node with a connection in either direction, and warnings do not make
\* valid false.
C21_IsolationWarnings ==
    last.op = "validateConnections"
       => LET warnings == last.result.warnings
          IN  /\ {warnings[k].nodeId : k \in DOMAIN warnings} = Isolated(last.before)
              /\ Len(warnings) = Cardinality(Isolated(last.before))
              /\ \A k \in DOMAIN warnings : warnings[k].severity = "warning"
              /\ last.result.errors = <<>> => last.result.valid

\* a workflow with an isolated node and a node connected to itself was
\* validated: one warning, and valid
C21_OneIsolatedWitness ==
    /\ last.op = "validateConnections"
    /\ Len(last.before) = 2
    /\ Len(last.result.warnings) = 1
    /\ last.result.valid
    /\ \E e \in EdgeSet(last.before) : e.sourceNodeId = e.targetNodeId

\* C22: validateConnections gives exactly one error for each node and input
\* whose connection names a source that is not a key, naming the node and the
\* input, and no other error; valid is true iff there is no such error.
C22_DanglingErrors ==
    last.op = "validateConnections"
       => LET errors == last.result.errors
          IN  /\ {<<errors[k].nodeId, errors[k].inputName>> : k \in DOMAIN errors}
                    = {<<e.targetNodeId, e.targetInputName>> : e \in Dangling(last.before)}
              /\ Len(errors) = Cardinality(Dangling(last.before))
              /\ \A k \in DOMAIN errors : errors[k].severity = "error"
              /\ last.result.valid <=> Dangling(last.before) = {}

\* a node with two dangling connections was validated
C22_TwoDanglingWitness ==
    /\ last.op = "validateConnections"
    /\ Len(last.result.errors) = 2
    /\ last.result.errors[1].nodeId = last.result.errors[2].nodeId
    /\ ~last.result.valid

\* a raw value that is an object whose values all have class_type and inputs
WellShaped(raw) ==
    /\ raw.kind = "object"
    /\ \A i \in DOMAIN raw.entries :
          {"class_type", "inputs"} \subseteq DOMAIN raw.entries[i]

\* C23: validateWorkflow(raw) does not raise; for a raw value that is not a
\* graph it returns valid false, the single structure error and no warning;
\* otherwise it returns the errors, warnings and valid of validateConnections(raw).
C23_ValidateWorkflow ==
    last.op = "validateWorkflow"
       => /\ last.outcome = "ok"
          /\ IF WellShaped(last.args.raw)
             THEN last.result = validateConnections(last.args.raw.entries)
             ELSE /\ ~last.result.valid
                  /\ Len(last.result.errors) = 1
                  /\ last.result.errors[1].message
                        = "Invalid workflow structure: not a valid ComfyWorkflowJson"
                  /\ last.result.warnings = <<>>

\* a graph with a dangling connection and an isolated node went through
\* validateWorkflow
C23_ErrorAndWarningWitness ==
    /\ last.op = "validateWorkflow"
    /\ WellShaped(last.args.raw)
    /\ Len(last.result.errors) = 1
    /\ Len(last.result.warnings) = 1

====
